---------------------------- MODULE Spec2Model ----------------------------
(***************************************************************************)
(* Model of the MCP agent: the agent loop of src/src/client.ts             *)
(* (processQuery and the REPL around it) and the capability host of        *)
(* src/src/server.ts (safePath, the tool handlers, the SQL dispatcher).    *)
(*                                                                         *)
(* Strings that the code inspects character by character (paths, SQL) are  *)
(* tuples of one-character strings.  Texts that the code only builds and   *)
(* joins (message texts) are tuples of pieces; the empty tuple is the      *)
(* empty string.                                                           *)
(***************************************************************************)
EXTENDS Integers, Sequences, FiniteSets, TLC

VARIABLES
    cwd,          \* server: process.cwd() at startup
    srv,          \* server: "ready", or "down" once the connection is lost
    opsLog,       \* server: the external calls made for the request being answered
    handled,      \* server: the request being answered and what came of it
    wire,         \* transport: the messages in flight between client and server
    pc,           \* client: position of the REPL / processQuery
    messages,     \* client: processQuery's messages array
    iter,         \* client: processQuery's loop counter i
    response,     \* client: the oracle's response being handled, or the one that ended the query
    toolResults,  \* client: processQuery's toolResults array
    inFlight,     \* client: the tool_use blocks whose callTool is pending
    outcome,      \* client: what the last processQuery returned or threw
    oracleCalls,  \* history: oracle calls made by the current query
    blocksUsed,   \* history: content blocks the oracle emitted in earlier turns
    invocations,  \* history: callTool requests sent by the current query
    mcpTools,     \* client: main's mcpTools, the catalogue listTools returned
    anthropicTools,  \* client: main's anthropicTools
    systemPrompt, \* client: main's systemPrompt
    oracleRequest \* history: system and tools of the current query's last oracle call

srvVars == <<cwd, srv, opsLog, handled>>
mainVars == <<mcpTools, anthropicTools, systemPrompt>>
cliVars == <<pc, messages, iter, response, toolResults, inFlight, outcome,
             oracleCalls, blocksUsed, invocations, mcpTools, anthropicTools,
             systemPrompt, oracleRequest>>
vars == <<cwd, srv, opsLog, handled, wire, pc, messages, iter, response,
          toolResults, inFlight, outcome, oracleCalls, blocksUsed, invocations,
          mcpTools, anthropicTools, systemPrompt, oracleRequest>>

---------------------------------------------------------------------------
(* Bounds of the model. *)

\* longest user path, in characters, that the server is sent directly
MaxPathLen == 5
\* content blocks the oracle emits in the responses to one query
MaxBlocks == 2
\* content blocks in one oracle response
MaxBatch == 2

---------------------------------------------------------------------------
(* Character strings. *)

None == [none |-> TRUE]

RECURSIVE SeqsUpTo(_, _)
SeqsUpTo(S, n) ==
    IF n = 0 THEN {<<>>}
    ELSE LET shorter == SeqsUpTo(S, n - 1)
         IN  shorter \cup {Append(s, c) : s \in {t \in shorter : Len(t) = n - 1}, c \in S}

StartsWith(s, prefix) ==
    /\ Len(prefix) <= Len(s)
    /\ SubSeq(s, 1, Len(prefix)) = prefix

WhiteSpace == {" ", "\n", "\t"}

RECURSIVE trimStart(_)
trimStart(s) ==
    IF s # <<>> /\ Head(s) \in WhiteSpace THEN trimStart(Tail(s)) ELSE s

RECURSIVE trimEnd(_)
trimEnd(s) ==
    IF s # <<>> /\ s[Len(s)] \in WhiteSpace THEN trimEnd(SubSeq(s, 1, Len(s) - 1)) ELSE s

LowerChars == <<"a", "c", "d", "e", "g", "i", "l", "m", "n", "p", "r", "s", "t", "x">>
UpperChars == <<"A", "C", "D", "E", "G", "I", "L", "M", "N", "P", "R", "S", "T", "X">>

toUpperCaseChar(c) ==
    IF \E j \in 1..Len(LowerChars) : LowerChars[j] = c
    THEN UpperChars[CHOOSE j \in 1..Len(LowerChars) : LowerChars[j] = c]
    ELSE c

toUpperCase(s) == [j \in 1..Len(s) |-> toUpperCaseChar(s[j])]

---------------------------------------------------------------------------
(* node:path for POSIX: path.resolve, path.dirname, path.sep. *)

sep == "/"

\* the segments of a path: the maximal runs of characters between separators,
\* empty runs included
RECURSIVE SplitPath(_)
SplitPath(s) ==
    IF \A j \in 1..Len(s) : s[j] # sep THEN <<s>>
    ELSE LET j == CHOOSE j \in 1..Len(s) :
                      /\ s[j] = sep
                      /\ \A h \in 1..(j - 1) : s[h] # sep
         IN  <<SubSeq(s, 1, j - 1)>> \o SplitPath(SubSeq(s, j + 1, Len(s)))

\* normalizeString with allowAboveRoot = false: "" and "." are skipped, ".."
\* removes the segment before it if there is one
RECURSIVE NormalizeSegs(_, _)
NormalizeSegs(segs, acc) ==
    IF segs = <<>> THEN acc
    ELSE LET s == Head(segs)
         IN  IF s = <<>> \/ s = <<".">> THEN NormalizeSegs(Tail(segs), acc)
             ELSE IF s = <<".", ".">>
                  THEN NormalizeSegs(Tail(segs),
                                     IF acc = <<>> THEN acc ELSE SubSeq(acc, 1, Len(acc) - 1))
                  ELSE NormalizeSegs(Tail(segs), Append(acc, s))

RECURSIVE JoinSegs(_)
JoinSegs(segs) ==
    IF segs = <<>> THEN <<>>
    ELSE IF Len(segs) = 1 THEN segs[1]
         ELSE segs[1] \o <<sep>> \o JoinSegs(Tail(segs))

\* path.resolve(base, p) for an absolute base: the rightmost absolute argument
\* starts the path, an empty argument is skipped
pathResolve(base, p) ==
    LET joined == IF p # <<>> /\ p[1] = sep THEN p ELSE base \o <<sep>> \o p
    IN  <<sep>> \o JoinSegs(NormalizeSegs(SplitPath(joined), <<>>))

\* path.dirname of a resolved absolute path
pathDirname(p) ==
    LET last == CHOOSE j \in 1..Len(p) : p[j] = sep /\ \A h \in (j + 1)..Len(p) : p[h] # sep
    IN  IF last = 1 THEN <<sep>> ELSE SubSeq(p, 1, last - 1)

---------------------------------------------------------------------------
(* Values on the wire: tagged argument values, envelopes. *)

Str(v) == [t |-> "string", v |-> v]
Num(n) == [t |-> "number", v |-> n]

\* the isError member of an envelope is the JSON value true or, in an envelope
\* that a handler returns on success, absent
Absent == "absent"

TextSeg(text) == [type |-> "text", text |-> text]
OkEnvelope(text) == [content |-> <<TextSeg(text)>>, isError |-> Absent]
ErrEnvelope(text) == [content |-> <<TextSeg(text)>>, isError |-> "true"]

\* what a handler call comes to: an envelope returned or an error thrown, and
\* the external calls it made on the way, in order
Returned(env, ops) == [threw |-> FALSE, ret |-> env, error |-> <<>>, ops |-> ops]
Threw(error, ops) == [threw |-> TRUE, ret |-> None, error |-> error, ops |-> ops]

FsOp(op, path) == [kind |-> "fs", op |-> op, target |-> path]
DbOp(op, sql) == [kind |-> "db", op |-> op, target |-> sql]
NetOp(url) == [kind |-> "net", op |-> "fetch", target |-> url]
ExecOp(file) == [kind |-> "exec", op |-> "execFile", target |-> file]

---------------------------------------------------------------------------
(* server.ts: the workspace sandbox. *)

WorkspaceName == <<"w">>

WORKSPACE_DIR == pathResolve(cwd, WorkspaceName)

safePath_NaivePrefix(userPath) ==
    LET resolved == pathResolve(WORKSPACE_DIR, userPath)
    IN  IF ~StartsWith(resolved, WORKSPACE_DIR)
        THEN [threw |-> TRUE, value |-> <<>>,
              error |-> <<"Path escapes workspace: ", userPath>>]
        ELSE [threw |-> FALSE, value |-> resolved, error |-> <<>>]

safePath(userPath) ==
    LET resolved == pathResolve(WORKSPACE_DIR, userPath)
    IN  IF ~StartsWith(resolved, WORKSPACE_DIR \o <<sep>>) /\ resolved # WORKSPACE_DIR
        THEN [threw |-> TRUE, value |-> <<>>,
              error |-> <<"Path escapes workspace: ", userPath>>]
        ELSE [threw |-> FALSE, value |-> resolved, error |-> <<>>]

---------------------------------------------------------------------------
(* server.ts: the tool handlers.  `fails` is the set of external calls that *)
(* fail during this invocation (a rejected promise, a thrown store error).  *)

read_file(args, fails) ==
    LET filePath == args.path.v
        sp == safePath(filePath)
    IN  IF sp.threw THEN Threw(sp.error, <<>>)
        ELSE LET ops == <<FsOp("readFile", sp.value)>>
             IN  IF "readFile" \in fails THEN Threw(<<"ENOENT: ", sp.value>>, ops)
                 ELSE Returned(OkEnvelope(<<"file content">>), ops)

write_file(args, fails) ==
    LET filePath == args.path.v
        sp == safePath(filePath)
    IN  IF sp.threw THEN Threw(sp.error, <<>>)
        ELSE LET mk == FsOp("mkdir", pathDirname(sp.value))
                 wr == FsOp("writeFile", sp.value)
             IN  IF "mkdir" \in fails THEN Threw(<<"EACCES: ", mk.target>>, <<mk>>)
                 ELSE IF "writeFile" \in fails
                      THEN Threw(<<"EISDIR: ", sp.value>>, <<mk, wr>>)
                      ELSE Returned(OkEnvelope(<<"Wrote ", args.content.v, " chars to ", filePath>>),
                                    <<mk, wr>>)

list_directory(args, fails) ==
    LET rel == IF "path" \in DOMAIN args THEN args.path.v ELSE <<".">>
        sp == safePath(rel)
    IN  IF sp.threw THEN Threw(sp.error, <<>>)
        ELSE LET ops == <<FsOp("readdir", sp.value)>>
             IN  IF "readdir" \in fails THEN Threw(<<"ENOENT: ", sp.value>>, ops)
                 ELSE IF "empty" \in fails
                      THEN Returned(OkEnvelope(<<"(empty directory)">>), ops)
                      ELSE Returned(OkEnvelope(<<"[file] a">>), ops)

fetch_url(args, fails) ==
    LET ops == <<NetOp(<<args.url.v>>)>>
    IN  IF "fetch" \in fails THEN Threw(<<"fetch failed">>, ops)
        ELSE IF "http" \in fails THEN Returned(ErrEnvelope(<<"HTTP ", "status">>), ops)
             ELSE IF "long" \in fails
                  THEN Returned(OkEnvelope(<<"body[0..5000]", "\n", "... (truncated)">>), ops)
                  ELSE Returned(OkEnvelope(<<"body">>), ops)

get_weather_Swallow(args, fails) ==
    LET ops == <<NetOp(<<"https://wttr.in/", args.city.v, "?format=3">>)>>
    IN  IF "fetch" \in fails THEN Returned(OkEnvelope(<<"unavailable">>), ops)
        ELSE Returned(OkEnvelope(<<"weather">>), ops)

get_weather(args, fails) ==
    LET ops == <<NetOp(<<"https://wttr.in/", args.city.v, "?format=3">>)>>
    IN  IF "fetch" \in fails THEN Threw(<<"fetch failed">>, ops)
        ELSE Returned(OkEnvelope(<<"weather">>), ops)

SPORT_ENDPOINTS == {"nfl", "nba", "mlb", "nhl", "mls", "epl", "ncaam", "ncaaw", "ncaaf",
                    "wnba", "champions", "fifa", "nwsl", "f1", "pga", "atp", "wta"}

\* league.toLowerCase() for the league names the model sends
toLowerCaseLeague(league) == IF league = "NBA" THEN "nba" ELSE league

get_sports_scores(args, fails) ==
    LET key == toLowerCaseLeague(args.league.v)
        ops == <<NetOp(<<"https://site.api.espn.com/", key, "/scoreboard">>)>>
    IN  IF key \notin SPORT_ENDPOINTS
        THEN Returned(ErrEnvelope(<<"Unknown league ", args.league.v>>), <<>>)
        ELSE IF "fetch" \in fails THEN Threw(<<"fetch failed">>, ops)
             ELSE IF "http" \in fails
                  THEN Returned(ErrEnvelope(<<"ESPN API error: HTTP ", "status">>), ops)
                  ELSE IF "empty" \in fails
                       THEN Returned(OkEnvelope(<<"No games found for ", key>>), ops)
                       ELSE Returned(OkEnvelope(<<key, " Scores:", "\n", "lines">>), ops)

\* execFileAsync rejects when the script exits with a failure ("exec") and when
\* it is killed at the 10 s timeout ("timeout"); a rejection of the fs.unlink in
\* the finally block ("unlink") is swallowed by its .catch and changes nothing
\* of what the handler returns
run_code(args, fails) ==
    LET tmpDir == WORKSPACE_DIR \o <<sep, ".", "t">>
        tmpFile == tmpDir \o <<sep, "u">>
        mk == FsOp("mkdir", tmpDir)
        wr == FsOp("writeFile", tmpFile)
        ex == ExecOp(tmpFile)
        ul == FsOp("unlink", tmpFile)
    IN  IF "mkdir" \in fails THEN Threw(<<"EACCES: ", tmpDir>>, <<mk>>)
        ELSE IF "writeFile" \in fails
             THEN Returned(ErrEnvelope(<<"Execution error: ", "ENOSPC">>), <<mk, wr, ul>>)
             ELSE IF "exec" \in fails \/ "timeout" \in fails
                  THEN Returned(ErrEnvelope(<<"Execution error: ", "Command failed">>),
                                <<mk, wr, ex, ul>>)
                  ELSE IF "empty" \in fails
                       THEN Returned(OkEnvelope(<<"(no output)">>), <<mk, wr, ex, ul>>)
                       ELSE Returned(OkEnvelope(<<"output">>), <<mk, wr, ex, ul>>)

web_search_NoKeyCheck(args, fails) ==
    LET ops == <<NetOp(<<"https://api.search.brave.com/", args.query.v>>)>>
    IN  IF "fetch" \in fails THEN Threw(<<"fetch failed">>, ops)
        ELSE IF "http" \in fails \/ "apiKey" \in fails
             THEN Returned(ErrEnvelope(<<"Brave Search API error: HTTP ", "status">>), ops)
             ELSE IF "empty" \in fails
                  THEN Returned(OkEnvelope(<<"No results found for ", args.query.v>>), ops)
                  ELSE Returned(OkEnvelope(<<"1. ", "results">>), ops)

\* "apiKey": process.env.BRAVE_API_KEY is not set, or is the empty string
web_search(args, fails) ==
    LET ops == <<NetOp(<<"https://api.search.brave.com/", args.query.v>>)>>
    IN  IF "apiKey" \in fails
        THEN Returned(ErrEnvelope(<<"BRAVE_API_KEY is not set in environment variables.">>), <<>>)
        ELSE IF "fetch" \in fails THEN Threw(<<"fetch failed">>, ops)
             ELSE IF "http" \in fails
                  THEN Returned(ErrEnvelope(<<"Brave Search API error: HTTP ", "status">>), ops)
                  ELSE IF "empty" \in fails
                       THEN Returned(OkEnvelope(<<"No results found for ", args.query.v>>), ops)
                       ELSE Returned(OkEnvelope(<<"1. ", "results">>), ops)

---------------------------------------------------------------------------
(* server.ts: query_database, the statement-class dispatcher. *)

KwSELECT == <<"S", "E", "L", "E", "C", "T">>
KwPRAGMA == <<"P", "R", "A", "G", "M", "A">>
KwEXPLAIN == <<"E", "X", "P", "L", "A", "I", "N">>

isRead_CaseSensitive(sql) ==
    LET trimmed == trimStart(sql)
    IN  \/ StartsWith(trimmed, KwSELECT)
        \/ StartsWith(trimmed, KwPRAGMA)
        \/ StartsWith(trimmed, KwEXPLAIN)

isRead(sql) ==
    LET trimmed == toUpperCase(trimStart(sql))
    IN  \/ StartsWith(trimmed, KwSELECT)
        \/ StartsWith(trimmed, KwPRAGMA)
        \/ StartsWith(trimmed, KwEXPLAIN)

query_database(args, fails) ==
    LET sql == args.sql.v
    IN  IF isRead(sql)
        THEN LET ops == <<DbOp("prepare.all", sql)>>
             IN  IF "db" \in fails
                 THEN Returned(ErrEnvelope(<<"SQL Error: ", "store error">>), ops)
                 ELSE Returned(OkEnvelope(<<"[rows]">>), ops)
        ELSE LET ops == <<DbOp("prepare.run", sql)>>
             IN  IF "db" \in fails
                 THEN Returned(ErrEnvelope(<<"SQL Error: ", "store error">>), ops)
                 ELSE Returned(OkEnvelope(<<"{changes,lastInsertRowid}">>), ops)

---------------------------------------------------------------------------
(* server.ts: the registrations (server.tool), with the schema of each tool. *)

Field(name, type, required) == [name |-> name, type |-> type, required |-> required]

ToolSchema_CountUntyped ==
    [read_file |-> {Field("path", "string", TRUE)},
     write_file |-> {Field("path", "string", TRUE), Field("content", "string", TRUE)},
     list_directory |-> {Field("path", "string", FALSE)},
     fetch_url |-> {Field("url", "string", TRUE)},
     get_weather |-> {Field("city", "string", TRUE)},
     get_sports_scores |-> {Field("league", "string", TRUE)},
     run_code |-> {Field("code", "string", TRUE)},
     web_search |-> {Field("query", "string", TRUE)},
     query_database |-> {Field("sql", "string", TRUE)}]

ToolSchema ==
    [read_file |-> {Field("path", "string", TRUE)},
     write_file |-> {Field("path", "string", TRUE), Field("content", "string", TRUE)},
     list_directory |-> {Field("path", "string", FALSE)},
     fetch_url |-> {Field("url", "string", TRUE)},
     get_weather |-> {Field("city", "string", TRUE)},
     get_sports_scores |-> {Field("league", "string", TRUE)},
     run_code |-> {Field("code", "string", TRUE)},
     web_search |-> {Field("query", "string", TRUE), Field("count", "number", FALSE)},
     query_database |-> {Field("sql", "string", TRUE)}]

RegisteredTools == DOMAIN ToolSchema

Handler(name, args, fails) ==
    CASE name = "read_file" -> read_file(args, fails)
      [] name = "write_file" -> write_file(args, fails)
      [] name = "list_directory" -> list_directory(args, fails)
      [] name = "fetch_url" -> fetch_url(args, fails)
      [] name = "get_weather" -> get_weather(args, fails)
      [] name = "get_sports_scores" -> get_sports_scores(args, fails)
      [] name = "run_code" -> run_code(args, fails)
      [] name = "web_search" -> web_search(args, fails)
      [] name = "query_database" -> query_database(args, fails)

\* the external calls and conditions that can go wrong in a handler
FailPoints(name) ==
    CASE name = "read_file" -> {"readFile"}
      [] name = "write_file" -> {"mkdir", "writeFile"}
      [] name = "list_directory" -> {"readdir", "empty"}
      [] name = "fetch_url" -> {"fetch", "http", "long"}
      [] name = "get_weather" -> {"fetch"}
      [] name = "get_sports_scores" -> {"fetch", "http", "empty"}
      [] name = "run_code" -> {"mkdir", "writeFile", "exec", "timeout", "empty", "unlink"}
      [] name = "web_search" -> {"apiKey", "fetch", "http", "empty"}
      [] name = "query_database" -> {"db"}
      [] OTHER -> {}

---------------------------------------------------------------------------
(* The capability invoker: the request handler that the McpServer class     *)
(* installs for tools/call.  Its code is in the MCP SDK, not in this        *)
(* repository; it is modelled from section 4.2 of the specification.        *)

\* the fields of the schema that the arguments violate
Violations(name, args) ==
    {f.name : f \in {g \in ToolSchema[name] :
                        \/ g.required /\ g.name \notin DOMAIN args
                        \/ g.name \in DOMAIN args /\ args[g.name].t # g.type}}

Invoked(env, ran, threw, propagated, ops) ==
    [env |-> env, ran |-> ran, threw |-> threw, propagated |-> propagated, ops |-> ops]

invoke(name, args, fails) ==
    IF name \notin RegisteredTools
    THEN Invoked(ErrEnvelope(<<"Tool ", name, " not found">>), FALSE, FALSE, FALSE, <<>>)
    ELSE IF Violations(name, args) # {}
         THEN Invoked(ErrEnvelope(<<"Invalid arguments for tool ", name, ": ",
                                    Violations(name, args)>>),
                      FALSE, FALSE, FALSE, <<>>)
         ELSE LET h == Handler(name, args, fails)
              IN  IF h.threw
                  THEN Invoked(ErrEnvelope(h.error), TRUE, TRUE, FALSE, h.ops)
                  ELSE Invoked(h.ret, TRUE, FALSE, FALSE, h.ops)

---------------------------------------------------------------------------
(* The transport and the server's side of it. *)

Request(id, name, args) == [id |-> id, kind |-> "request", name |-> name, args |-> args]
Response(id, env) == [id |-> id, kind |-> "response", env |-> env]
Failure(id) == [id |-> id, kind |-> "failed"]

\* the server takes a request off the wire, invokes the tool and answers
ServerHandle ==
    /\ srv = "ready"
    /\ \E m \in wire :
          /\ m.kind = "request"
          /\ \E fails \in SUBSET FailPoints(m.name) :
                LET r == invoke(m.name, m.args, fails)
                IN  /\ wire' = (wire \ {m}) \cup
                                  {IF r.propagated THEN Failure(m.id) ELSE Response(m.id, r.env)}
                    /\ opsLog' = r.ops
                    /\ handled' = [name |-> m.name, args |-> m.args, fails |-> fails,
                                   ran |-> r.ran, threw |-> r.threw,
                                   propagated |-> r.propagated, env |-> r.env]
    /\ UNCHANGED <<cwd, srv>>
    /\ UNCHANGED cliVars

---------------------------------------------------------------------------
(* The server on its own: started in some working directory, it is sent     *)
(* tools/call requests over its stdio transport, one at a time.             *)

Cwds == {<<sep>>, <<sep, "x">>}

PathChars == {sep, ".", "w", "x"}

UserPaths == SeqsUpTo(PathChars, MaxPathLen)

SqlLeads == {<<>>, <<" ">>, <<"\n", " ">>}

SqlWords ==
    {<<"S", "E", "L", "E", "C", "T">>, <<"s", "e", "l", "e", "c", "t">>,
     <<"S", "e", "l", "E", "c", "t">>, <<"p", "r", "a", "g", "m", "a">>,
     <<"E", "x", "p", "l", "a", "i", "n">>, <<"S", "E", "L", "E", "C">>,
     <<"I", "N", "S", "E", "R", "T">>, <<"i", "n", "s", "e", "r", "t">>,
     <<"D", "E", "L", "E", "T", "E">>, <<"X", "S", "E", "L", "E", "C", "T">>, <<>>}

SqlTails ==
    {<<>>, <<" ", "1">>, <<";">>, <<" ", "1", ";", " ">>,
     <<" ", "1", ";", " ", "D", "E", "L", "E", "T", "E">>,
     <<";", "S", "E", "L", "E", "C", "T", " ", "1">>}

SqlTexts == {l \o w \o t : l \in SqlLeads, w \in SqlWords, t \in SqlTails}

ServerRequests ==
    {[name |-> "read_file", args |-> [path |-> Str(q)]] : q \in UserPaths}
    \cup {[name |-> "write_file", args |-> [path |-> Str(q), content |-> Str("c")]] :
             q \in UserPaths}
    \cup {[name |-> "list_directory", args |-> [path |-> Str(q)]] : q \in UserPaths}
    \cup {[name |-> "query_database", args |-> [sql |-> Str(q)]] : q \in SqlTexts}
    \cup {[name |-> "list_directory", args |-> <<>>],
          [name |-> "fetch_url", args |-> [url |-> Str("https://e.org")]],
          [name |-> "get_weather", args |-> [city |-> Str("London")]],
          [name |-> "get_sports_scores", args |-> [league |-> Str("NBA")]],
          [name |-> "get_sports_scores", args |-> [league |-> Str("zzz")]],
          [name |-> "run_code", args |-> [code |-> Str("while True: pass")]],
          [name |-> "web_search", args |-> [query |-> Str("q")]],
          [name |-> "web_search", args |-> [query |-> Str("q"), count |-> Num(3)]],
          [name |-> "write_file", args |-> [path |-> Str(<<"w">>)]],
          [name |-> "read_file", args |-> [path |-> Num(1)]],
          [name |-> "web_search", args |-> [query |-> Str("q"), count |-> Str("3")]],
          [name |-> "delete_everything", args |-> <<>>]}

ClientDetached ==
    /\ pc = "detached"
    /\ messages = <<>>
    /\ iter = 0
    /\ response = None
    /\ toolResults = <<>>
    /\ inFlight = {}
    /\ outcome = None
    /\ oracleCalls = 0
    /\ blocksUsed = 0
    /\ invocations = <<>>
    /\ mcpTools = <<>>
    /\ anthropicTools = <<>>
    /\ systemPrompt = <<>>
    /\ oracleRequest = None

ServerStarted ==
    /\ srv = "ready"
    /\ opsLog = <<>>
    /\ handled = None
    /\ wire = {}

InitServer == cwd \in Cwds /\ ServerStarted /\ ClientDetached

\* a tools/call request arrives
RequestArrives ==
    /\ srv = "ready"
    /\ wire = {}
    /\ \E r \in ServerRequests : wire' = {Request(0, r.name, r.args)}
    /\ UNCHANGED srvVars
    /\ UNCHANGED cliVars

\* the answer leaves
ResponseLeaves ==
    /\ \E m \in wire : m.kind # "request" /\ wire' = wire \ {m}
    /\ opsLog' = <<>>
    /\ handled' = None
    /\ UNCHANGED <<cwd, srv>>
    /\ UNCHANGED cliVars

NextServer == RequestArrives \/ ServerHandle \/ ResponseLeaves

SpecServer == InitServer /\ [][NextServer]_vars

---------------------------------------------------------------------------
(* client.ts: the conversation and the oracle. *)

MAX_ITERATIONS == 10

\* Array.prototype.join("\n") over texts
RECURSIVE JoinLines(_)
JoinLines(texts) ==
    IF texts = <<>> THEN <<>>
    ELSE IF Len(texts) = 1 THEN texts[1]
         ELSE texts[1] \o <<"\n">> \o JoinLines(Tail(texts))

\* a || b for strings: the empty string is falsy
OrElse(text, fallback) == IF text = <<>> THEN fallback ELSE text

IsText(b) == b.type = "text"
IsToolUse(b) == b.type = "tool_use"

TextOf(b) == b.text

RECURSIVE MapText(_)
MapText(blocks) ==
    IF blocks = <<>> THEN <<>> ELSE <<TextOf(Head(blocks))>> \o MapText(Tail(blocks))

\* response.content.filter(text).map(b => b.text)
TextBlocks(content) == MapText(SelectSeq(content, IsText))

\* response.content.filter(tool_use)
ToolUseBlocks(content) == SelectSeq(content, IsToolUse)

UserMessage(text) == [role |-> "user", kind |-> "text", content |-> text]
AssistantMessage(blocks) == [role |-> "assistant", kind |-> "blocks", content |-> blocks]
ToolResultsMessage(results) == [role |-> "user", kind |-> "tool_results", content |-> results]

ToolResult_AlwaysSuccess(toolUse, result) ==
    [type |-> "tool_result",
     tool_use_id |-> toolUse.id,
     content |-> JoinLines(TextBlocks(result.content)),
     is_error |-> FALSE]

\* the entry pushed for one tool_use block and the envelope callTool returned
ToolResult(toolUse, result) ==
    [type |-> "tool_result",
     tool_use_id |-> toolUse.id,
     content |-> JoinLines(TextBlocks(result.content)),
     is_error |-> (result.isError = "true")]

Returns(text) == [kind |-> "returned", text |-> text]
Throws(error) == [kind |-> "threw", error |-> error]

\* the requests the oracle may make of the tools
OracleRequests ==
    {[name |-> "query_database", args |-> [sql |-> Str(<<"I", "N", "S", "E", "R", "T">>)]],
     [name |-> "read_file", args |-> [path |-> Str(<<".", ".", sep, "x">>)]],
     [name |-> "delete_everything", args |-> <<>>]}

\* what one content block of an oracle response can be, before it gets its id
BlockKinds ==
    {[type |-> "text", text |-> <<"T">>]}
    \cup {[type |-> "tool_use", name |-> r.name, input |-> r.args] : r \in OracleRequests}

\* the block with the id the oracle gives it: the tool_use blocks of one query
\* have distinct ids
Stamp(kind, call, j) ==
    IF kind.type = "text" THEN kind
    ELSE [type |-> "tool_use", id |-> <<call, j>>, name |-> kind.name, input |-> kind.input]

OracleContents(call, maxLen) ==
    {[j \in 1..Len(ks) |-> Stamp(ks[j], call, j)] : ks \in SeqsUpTo(BlockKinds, maxLen)}

\* what one content block of a response that ends the query can be: a text,
\* the empty text, or a tool_use block, which such a response may still carry
FinalBlockKinds ==
    {[type |-> "text", text |-> <<"T">>], [type |-> "text", text |-> <<"U">>],
     [type |-> "text", text |-> <<>>],
     [type |-> "tool_use", name |-> "delete_everything", input |-> <<>>]}

FinalContents(call, maxLen) ==
    {[j \in 1..Len(ks) |-> Stamp(ks[j], call, j)] : ks \in SeqsUpTo(FinalBlockKinds, maxLen)}

Min(a, b) == IF a < b THEN a ELSE b

---------------------------------------------------------------------------
(* The catalogue: what tools/list answers, and what main makes of it. *)

\* the descriptions the tools are registered with, each cut after its first
\* words
ToolDescription ==
    [read_file |-> <<"Read the contents of a file ...">>,
     write_file |-> <<"Write content to a file ...">>,
     list_directory |-> <<"List files and directories ...">>,
     fetch_url |-> <<"Fetch the content of a URL ...">>,
     get_weather |-> <<"Get the current weather ...">>,
     get_sports_scores |-> <<"Get recent/live sports ...">>,
     run_code |-> <<"Run a Python script ...">>,
     web_search |-> <<"Search the web using Brave ...">>,
     query_database |-> <<"Run a SQL query against ...">>]

\* the names of the tools in the order of their registration
RegistrationOrder ==
    <<"read_file", "write_file", "list_directory", "fetch_url", "get_weather",
      "get_sports_scores", "run_code", "web_search", "query_database">>

\* the answer of the server to tools/list
ListedTools ==
    [j \in 1..Len(RegistrationOrder) |->
        [name |-> RegistrationOrder[j],
         description |-> ToolDescription[RegistrationOrder[j]],
         inputSchema |-> ToolSchema[RegistrationOrder[j]]]]

\* one element of mcpTools.map(...): t.description ?? ""
AnthropicTool(t) ==
    [name |-> t.name,
     description |-> IF "description" \in DOMAIN t THEN t.description ELSE <<>>,
     input_schema |-> t.inputSchema]

MapTools(tools) == [j \in 1..Len(tools) |-> AnthropicTool(tools[j])]

\* `- ${t.name}: ${t.description}`
ToolLine(t) == <<"- ", t.name, ": ">> \o t.description

PromptHead == <<"You are a helpful assistant with access to these tools:", "\n">>
PromptTail == <<"\n", "\n", "Always prefer using the specific tool designed ...">>

BuildPrompt(tools) ==
    PromptHead \o JoinLines([j \in 1..Len(tools) |-> ToolLine(tools[j])]) \o PromptTail

---------------------------------------------------------------------------
(* client.ts: the REPL and processQuery. *)

ReplInputs ==
    {<<>>, <<" ">>, <<"q", "u", "i", "t">>, <<"e", "x", "i", "t", " ">>, <<" ", "h", "i">>}

ClientConnected ==
    /\ pc = "prompt"
    /\ messages = <<>>
    /\ iter = 0
    /\ response = None
    /\ toolResults = <<>>
    /\ inFlight = {}
    /\ outcome = None
    /\ oracleCalls = 0
    /\ blocksUsed = 0
    /\ invocations = <<>>
    /\ mcpTools = ListedTools
    /\ anthropicTools = MapTools(mcpTools)
    /\ systemPrompt = BuildPrompt(anthropicTools)
    /\ oracleRequest = None

Init == cwd = <<sep, "x">> /\ ServerStarted /\ ClientConnected

\* a return or a throw of processQuery, back in the REPL callback, which prints
\* the answer or the error and prompts again; the arrays of processQuery are gone
Leave(result) ==
    /\ outcome' = result
    /\ pc' = "prompt"
    /\ messages' = <<>>
    /\ toolResults' = <<>>
    /\ inFlight' = {}
    /\ invocations' = <<>>

ReplQuestion_KeepHistory(input) ==
    /\ pc = "prompt"
    /\ LET trimmed == trimEnd(trimStart(input))
       IN  IF trimmed = <<>>
           THEN UNCHANGED vars
           ELSE IF trimmed \in {<<"q", "u", "i", "t">>, <<"e", "x", "i", "t">>}
                THEN /\ pc' = "exited"
                     /\ srv' = "down"
                     /\ outcome' = None
                     /\ messages' = <<>>
                     /\ response' = None
                     /\ iter' = 0
                     /\ oracleCalls' = 0
                     /\ blocksUsed' = 0
                     /\ oracleRequest' = None
                     /\ UNCHANGED <<cwd, opsLog, handled, wire, toolResults, inFlight,
                                    invocations>>
                     /\ UNCHANGED mainVars
                ELSE /\ messages' = (IF response = None THEN <<>>
                                     ELSE <<AssistantMessage(response.content)>>)
                                    \o <<UserMessage(trimmed)>>
                     /\ iter' = 0
                     /\ pc' = "loop"
                     /\ response' = None
                     /\ toolResults' = <<>>
                     /\ inFlight' = {}
                     /\ outcome' = None
                     /\ oracleCalls' = 0
                     /\ blocksUsed' = 0
                     /\ invocations' = <<>>
                     /\ oracleRequest' = None
                     /\ UNCHANGED <<cwd, srv, opsLog, handled, wire>>
                     /\ UNCHANGED mainVars

ReplQuestion_Reentrant(input) ==
    /\ pc \in {"prompt", "loop", "dispatch"}
    /\ LET trimmed == trimEnd(trimStart(input))
       IN  IF trimmed = <<>>
           THEN UNCHANGED vars
           ELSE IF trimmed \in {<<"q", "u", "i", "t">>, <<"e", "x", "i", "t">>}
                THEN /\ pc' = "exited"
                     /\ srv' = "down"
                     /\ outcome' = None
                     /\ messages' = <<>>
                     /\ response' = None
                     /\ iter' = 0
                     /\ oracleCalls' = 0
                     /\ blocksUsed' = 0
                     /\ oracleRequest' = None
                     /\ UNCHANGED <<cwd, opsLog, handled, wire, toolResults, inFlight,
                                    invocations>>
                     /\ UNCHANGED mainVars
                ELSE /\ messages' = <<UserMessage(trimmed)>>
                     /\ iter' = 0
                     /\ pc' = "loop"
                     /\ response' = None
                     /\ toolResults' = <<>>
                     /\ inFlight' = {}
                     /\ outcome' = None
                     /\ oracleCalls' = 0
                     /\ blocksUsed' = 0
                     /\ invocations' = <<>>
                     /\ oracleRequest' = None
                     /\ UNCHANGED <<cwd, srv, opsLog, handled, wire>>
                     /\ UNCHANGED mainVars

\* rl.question's callback up to the first oracle call of processQuery
ReplQuestion(input) ==
    /\ pc = "prompt"
    /\ LET trimmed == trimEnd(trimStart(input))
       IN  IF trimmed = <<>>
           THEN UNCHANGED vars
           ELSE IF trimmed \in {<<"q", "u", "i", "t">>, <<"e", "x", "i", "t">>}
                THEN /\ pc' = "exited"
                     /\ srv' = "down"
                     /\ outcome' = None
                     /\ messages' = <<>>
                     /\ response' = None
                     /\ iter' = 0
                     /\ oracleCalls' = 0
                     /\ blocksUsed' = 0
                     /\ oracleRequest' = None
                     /\ UNCHANGED <<cwd, opsLog, handled, wire, toolResults, inFlight,
                                    invocations>>
                     /\ UNCHANGED mainVars
                ELSE /\ messages' = <<UserMessage(trimmed)>>
                     /\ iter' = 0
                     /\ pc' = "loop"
                     /\ response' = None
                     /\ toolResults' = <<>>
                     /\ inFlight' = {}
                     /\ outcome' = None
                     /\ oracleCalls' = 0
                     /\ blocksUsed' = 0
                     /\ invocations' = <<>>
                     /\ oracleRequest' = None
                     /\ UNCHANGED <<cwd, srv, opsLog, handled, wire>>
                     /\ UNCHANGED mainVars

LoopGuard_OneMore == iter <= MAX_ITERATIONS

\* the for loop's condition
LoopGuard == iter < MAX_ITERATIONS

OracleEndTurn_DispatchesRequests ==
    /\ pc = "loop"
    /\ LoopGuard
    /\ \E content \in FinalContents(oracleCalls + 1, Min(MaxBatch, MaxBlocks - blocksUsed)) :
          /\ oracleCalls' = oracleCalls + 1
          /\ response' = [stop_reason |-> "end_turn", content |-> content]
          /\ IF ToolUseBlocks(content) = <<>>
             THEN /\ Leave(Returns(OrElse(JoinLines(TextBlocks(content)),
                                          <<"(no text response)">>)))
                  /\ UNCHANGED blocksUsed
             ELSE /\ messages' = Append(messages, AssistantMessage(content))
                  /\ blocksUsed' = blocksUsed + Len(content)
                  /\ toolResults' = <<>>
                  /\ pc' = "dispatch"
                  /\ UNCHANGED <<inFlight, outcome, invocations>>
    /\ UNCHANGED <<iter, wire>>
    /\ UNCHANGED srvVars
    /\ oracleRequest' = [system |-> systemPrompt, tools |-> anthropicTools]
    /\ UNCHANGED mainVars

OracleEndTurn_NoPlaceholder ==
    /\ pc = "loop"
    /\ LoopGuard
    /\ \E content \in FinalContents(oracleCalls + 1, Min(MaxBatch, MaxBlocks - blocksUsed)) :
          /\ oracleCalls' = oracleCalls + 1
          /\ response' = [stop_reason |-> "end_turn", content |-> content]
          /\ Leave(Returns(JoinLines(TextBlocks(content))))
    /\ UNCHANGED <<iter, blocksUsed, wire>>
    /\ UNCHANGED srvVars
    /\ oracleRequest' = [system |-> systemPrompt, tools |-> anthropicTools]
    /\ UNCHANGED mainVars

\* the oracle answers with stop_reason end_turn
OracleEndTurn ==
    /\ pc = "loop"
    /\ LoopGuard
    /\ \E content \in FinalContents(oracleCalls + 1, Min(MaxBatch, MaxBlocks - blocksUsed)) :
          /\ oracleCalls' = oracleCalls + 1
          /\ response' = [stop_reason |-> "end_turn", content |-> content]
          /\ Leave(Returns(OrElse(JoinLines(TextBlocks(content)), <<"(no text response)">>)))
    /\ UNCHANGED <<iter, blocksUsed, wire>>
    /\ UNCHANGED srvVars
    /\ oracleRequest' = [system |-> systemPrompt, tools |-> anthropicTools]
    /\ UNCHANGED mainVars

OracleToolUse_ToolUseOnly ==
    /\ pc = "loop"
    /\ LoopGuard
    /\ \E content \in OracleContents(oracleCalls + 1, Min(MaxBatch, MaxBlocks - blocksUsed)) :
          /\ oracleCalls' = oracleCalls + 1
          /\ blocksUsed' = blocksUsed + Len(content)
          /\ response' = [stop_reason |-> "tool_use", content |-> content]
          /\ messages' = Append(messages, AssistantMessage(ToolUseBlocks(content)))
    /\ toolResults' = <<>>
    /\ pc' = "dispatch"
    /\ UNCHANGED <<iter, inFlight, outcome, invocations, wire>>
    /\ UNCHANGED srvVars
    /\ oracleRequest' = [system |-> systemPrompt, tools |-> anthropicTools]
    /\ UNCHANGED mainVars

OracleToolUse_NoAssistantTurn ==
    /\ pc = "loop"
    /\ LoopGuard
    /\ \E content \in OracleContents(oracleCalls + 1, Min(MaxBatch, MaxBlocks - blocksUsed)) :
          /\ oracleCalls' = oracleCalls + 1
          /\ blocksUsed' = blocksUsed + Len(content)
          /\ response' = [stop_reason |-> "tool_use", content |-> content]
    /\ toolResults' = <<>>
    /\ pc' = "dispatch"
    /\ UNCHANGED <<messages, iter, inFlight, outcome, invocations, wire>>
    /\ UNCHANGED srvVars
    /\ oracleRequest' = [system |-> systemPrompt, tools |-> anthropicTools]
    /\ UNCHANGED mainVars

\* the oracle answers with stop_reason tool_use
OracleToolUse ==
    /\ pc = "loop"
    /\ LoopGuard
    /\ \E content \in OracleContents(oracleCalls + 1, Min(MaxBatch, MaxBlocks - blocksUsed)) :
          /\ oracleCalls' = oracleCalls + 1
          /\ blocksUsed' = blocksUsed + Len(content)
          /\ response' = [stop_reason |-> "tool_use", content |-> content]
          /\ messages' = Append(messages, AssistantMessage(content))
    /\ toolResults' = <<>>
    /\ pc' = "dispatch"
    /\ UNCHANGED <<iter, inFlight, outcome, invocations, wire>>
    /\ UNCHANGED srvVars
    /\ oracleRequest' = [system |-> systemPrompt, tools |-> anthropicTools]
    /\ UNCHANGED mainVars

OracleOtherStop_Throws ==
    /\ pc = "loop"
    /\ LoopGuard
    /\ \E content \in FinalContents(oracleCalls + 1, Min(MaxBatch, MaxBlocks - blocksUsed)) :
          /\ oracleCalls' = oracleCalls + 1
          /\ response' = [stop_reason |-> "other", content |-> content]
          /\ Leave(Throws("stop"))
    /\ UNCHANGED <<iter, blocksUsed, wire>>
    /\ UNCHANGED srvVars
    /\ oracleRequest' = [system |-> systemPrompt, tools |-> anthropicTools]
    /\ UNCHANGED mainVars

\* the oracle answers with another stop_reason (max_tokens, stop_sequence, ...)
OracleOtherStop ==
    /\ pc = "loop"
    /\ LoopGuard
    /\ \E content \in FinalContents(oracleCalls + 1, Min(MaxBatch, MaxBlocks - blocksUsed)) :
          /\ oracleCalls' = oracleCalls + 1
          /\ response' = [stop_reason |-> "other", content |-> content]
          /\ Leave(Returns(OrElse(JoinLines(TextBlocks(content)), <<"(unexpected stop)">>)))
    /\ UNCHANGED <<iter, blocksUsed, wire>>
    /\ UNCHANGED srvVars
    /\ oracleRequest' = [system |-> systemPrompt, tools |-> anthropicTools]
    /\ UNCHANGED mainVars

\* anthropic.messages.create rejects
OracleFails ==
    /\ pc = "loop"
    /\ LoopGuard
    /\ oracleCalls' = oracleCalls + 1
    /\ Leave(Throws("oracle"))
    /\ UNCHANGED <<iter, response, blocksUsed, wire>>
    /\ UNCHANGED srvVars
    /\ oracleRequest' = [system |-> systemPrompt, tools |-> anthropicTools]
    /\ UNCHANGED mainVars

\* the loop ends without a return
LoopExit ==
    /\ pc = "loop"
    /\ ~LoopGuard
    /\ Leave(Returns(<<"(reached max iterations)">>))
    /\ UNCHANGED <<iter, response, oracleCalls, blocksUsed, wire>>
    /\ UNCHANGED srvVars
    /\ UNCHANGED <<mcpTools, anthropicTools, systemPrompt, oracleRequest>>

\* the tool_use blocks that have their result
Answered ==
    {k \in 1..Len(ToolUseBlocks(response.content)) :
        \E j \in 1..Len(toolResults) :
            toolResults[j].tool_use_id = ToolUseBlocks(response.content)[k].id}

Dispatchable_NotOnLast ==
    IF /\ inFlight = {}
       /\ Len(toolResults) < Len(ToolUseBlocks(response.content))
       /\ iter < MAX_ITERATIONS - 1
    THEN {Len(toolResults) + 1}
    ELSE {}

Dispatchable_AllAtOnce == (1..Len(ToolUseBlocks(response.content))) \ (inFlight \cup Answered)

\* the tool_use blocks whose callTool may be issued now: the for loop awaits
\* each call before it goes on to the next block
Dispatchable ==
    IF inFlight = {} /\ Len(toolResults) < Len(ToolUseBlocks(response.content))
    THEN {Len(toolResults) + 1}
    ELSE {}

\* mcpClient.callTool is called for block k
CallToolSend(k) ==
    /\ pc = "dispatch"
    /\ k \in Dispatchable
    /\ LET toolUse == ToolUseBlocks(response.content)[k]
       IN  /\ wire' = wire \cup {IF srv = "down" THEN Failure(k)
                                 ELSE Request(k, toolUse.name, toolUse.input)}
           /\ invocations' = Append(invocations, toolUse)
    /\ inFlight' = inFlight \cup {k}
    /\ UNCHANGED <<pc, messages, iter, response, toolResults, outcome,
                   oracleCalls, blocksUsed>>
    /\ UNCHANGED srvVars
    /\ UNCHANGED <<mcpTools, anthropicTools, systemPrompt, oracleRequest>>

CallToolReturn_ThrowOnError(k) ==
    /\ pc = "dispatch"
    /\ k \in inFlight
    /\ \E m \in wire :
          /\ m.kind = "response"
          /\ m.id = k
          /\ wire' = wire \ {m}
          /\ IF m.env.isError = "true"
             THEN /\ Leave(Throws("tool"))
                  /\ response' = None
                  /\ UNCHANGED <<iter, oracleCalls, blocksUsed>>
             ELSE /\ toolResults' =
                        Append(toolResults, ToolResult(ToolUseBlocks(response.content)[k], m.env))
                  /\ inFlight' = inFlight \ {k}
                  /\ UNCHANGED <<pc, messages, iter, response, outcome, oracleCalls,
                                 blocksUsed, invocations>>
    /\ opsLog' = <<>>
    /\ handled' = None
    /\ UNCHANGED <<cwd, srv>>
    /\ UNCHANGED <<mcpTools, anthropicTools, systemPrompt, oracleRequest>>

CallToolReturn_RetryOnError(k) ==
    /\ pc = "dispatch"
    /\ k \in inFlight
    /\ \E m \in wire :
          /\ m.kind = "response"
          /\ m.id = k
          /\ LET toolUse == ToolUseBlocks(response.content)[k]
             IN  IF m.env.isError = "true" /\ Len(invocations) < MaxBlocks + 1
                 THEN /\ wire' = (wire \ {m}) \cup {Request(k, toolUse.name, toolUse.input)}
                      /\ invocations' = Append(invocations, toolUse)
                      /\ UNCHANGED <<toolResults, inFlight>>
                 ELSE /\ wire' = wire \ {m}
                      /\ toolResults' = Append(toolResults, ToolResult(toolUse, m.env))
                      /\ inFlight' = inFlight \ {k}
                      /\ UNCHANGED invocations
    /\ opsLog' = <<>>
    /\ handled' = None
    /\ UNCHANGED <<cwd, srv>>
    /\ UNCHANGED <<pc, messages, iter, response, outcome, oracleCalls, blocksUsed>>
    /\ UNCHANGED <<mcpTools, anthropicTools, systemPrompt, oracleRequest>>

\* callTool for block k resolves with an envelope: its result is pushed
CallToolReturn(k) ==
    /\ pc = "dispatch"
    /\ k \in inFlight
    /\ \E m \in wire :
          /\ m.kind = "response"
          /\ m.id = k
          /\ wire' = wire \ {m}
          /\ toolResults' =
                Append(toolResults, ToolResult(ToolUseBlocks(response.content)[k], m.env))
    /\ inFlight' = inFlight \ {k}
    /\ opsLog' = <<>>
    /\ handled' = None
    /\ UNCHANGED <<cwd, srv>>
    /\ UNCHANGED <<pc, messages, iter, response, outcome, oracleCalls, blocksUsed,
                   invocations>>
    /\ UNCHANGED <<mcpTools, anthropicTools, systemPrompt, oracleRequest>>

CallToolRejects_Caught(k) ==
    /\ pc = "dispatch"
    /\ k \in inFlight
    /\ \E m \in wire :
          /\ m.id = k
          /\ wire' = wire \ {m}
          /\ IF m.kind = "failed" THEN srv' = srv ELSE srv' \in {"ready", "down"}
    /\ toolResults' = Append(toolResults,
                             [type |-> "tool_result",
                              tool_use_id |-> ToolUseBlocks(response.content)[k].id,
                              content |-> <<"transport">>,
                              is_error |-> TRUE])
    /\ inFlight' = inFlight \ {k}
    /\ opsLog' = <<>>
    /\ handled' = None
    /\ UNCHANGED <<cwd, pc, messages, iter, response, outcome, oracleCalls,
                   blocksUsed, invocations>>
    /\ UNCHANGED <<mcpTools, anthropicTools, systemPrompt, oracleRequest>>

\* callTool for block k rejects (the request timed out, the connection closed or
\* was closed already): processQuery throws
CallToolRejects(k) ==
    /\ pc = "dispatch"
    /\ k \in inFlight
    /\ \E m \in wire :
          /\ m.id = k
          /\ wire' = wire \ {m}
          /\ IF m.kind = "failed" THEN srv' = srv ELSE srv' \in {"ready", "down"}
    /\ Leave(Throws("transport"))
    /\ opsLog' = <<>>
    /\ handled' = None
    /\ response' = None
    /\ UNCHANGED <<cwd, iter, oracleCalls, blocksUsed>>
    /\ UNCHANGED <<mcpTools, anthropicTools, systemPrompt, oracleRequest>>

IsSuccess(r) == ~r.is_error

BatchDone_OnlySuccesses ==
    /\ pc = "dispatch"
    /\ inFlight = {}
    /\ Dispatchable = {}
    /\ messages' = Append(messages, ToolResultsMessage(SelectSeq(toolResults, IsSuccess)))
    /\ iter' = iter + 1
    /\ pc' = "loop"
    /\ response' = None
    /\ toolResults' = <<>>
    /\ UNCHANGED <<inFlight, outcome, oracleCalls, blocksUsed, invocations, wire>>
    /\ UNCHANGED srvVars
    /\ UNCHANGED <<mcpTools, anthropicTools, systemPrompt, oracleRequest>>

BatchDone_AbortOnError ==
    /\ pc = "dispatch"
    /\ inFlight = {}
    /\ Dispatchable = {}
    /\ IF \E j \in 1..Len(toolResults) : toolResults[j].is_error
       THEN /\ Leave(Throws("tool"))
            /\ response' = None
            /\ UNCHANGED iter
       ELSE /\ messages' = Append(messages, ToolResultsMessage(toolResults))
            /\ iter' = iter + 1
            /\ pc' = "loop"
            /\ response' = None
            /\ toolResults' = <<>>
            /\ UNCHANGED <<inFlight, outcome, invocations>>
    /\ UNCHANGED <<oracleCalls, blocksUsed, wire>>
    /\ UNCHANGED srvVars
    /\ UNCHANGED <<mcpTools, anthropicTools, systemPrompt, oracleRequest>>

BatchDone_EmptyEndsQuery ==
    /\ pc = "dispatch"
    /\ inFlight = {}
    /\ Dispatchable = {}
    /\ IF toolResults = <<>>
       THEN /\ Leave(Returns(<<"(no tool calls)">>))
            /\ UNCHANGED <<iter, response>>
       ELSE /\ messages' = Append(messages, ToolResultsMessage(toolResults))
            /\ iter' = iter + 1
            /\ pc' = "loop"
            /\ response' = None
            /\ toolResults' = <<>>
            /\ UNCHANGED <<inFlight, outcome, invocations>>
    /\ UNCHANGED <<oracleCalls, blocksUsed, wire>>
    /\ UNCHANGED srvVars
    /\ UNCHANGED <<mcpTools, anthropicTools, systemPrompt, oracleRequest>>

BatchDone_Restart ==
    /\ pc = "dispatch"
    /\ inFlight = {}
    /\ Dispatchable = {}
    /\ messages' = <<messages[1]>>
    /\ iter' = 0
    /\ oracleCalls' = 0
    /\ blocksUsed' = 0
    /\ invocations' = <<>>
    /\ oracleRequest' = None
    /\ pc' = "loop"
    /\ response' = None
    /\ toolResults' = <<>>
    /\ UNCHANGED <<inFlight, outcome, wire>>
    /\ UNCHANGED srvVars
    /\ UNCHANGED mainVars

BatchDone_ReplaceLast ==
    /\ pc = "dispatch"
    /\ inFlight = {}
    /\ Dispatchable = {}
    /\ messages' = [messages EXCEPT ![Len(messages)] = ToolResultsMessage(toolResults)]
    /\ iter' = iter + 1
    /\ pc' = "loop"
    /\ response' = None
    /\ toolResults' = <<>>
    /\ UNCHANGED <<inFlight, outcome, oracleCalls, blocksUsed, invocations, wire>>
    /\ UNCHANGED srvVars
    /\ UNCHANGED <<mcpTools, anthropicTools, systemPrompt, oracleRequest>>

\* every block of the batch has its result: the results are pushed as one user
\* message and the loop continues
BatchDone ==
    /\ pc = "dispatch"
    /\ inFlight = {}
    /\ Dispatchable = {}
    /\ messages' = Append(messages, ToolResultsMessage(toolResults))
    /\ iter' = iter + 1
    /\ pc' = "loop"
    /\ response' = None
    /\ toolResults' = <<>>
    /\ UNCHANGED <<inFlight, outcome, oracleCalls, blocksUsed, invocations, wire>>
    /\ UNCHANGED srvVars
    /\ UNCHANGED <<mcpTools, anthropicTools, systemPrompt, oracleRequest>>

Next ==
    \/ \E input \in ReplInputs : ReplQuestion(input)
    \/ OracleEndTurn
    \/ OracleToolUse
    \/ OracleOtherStop
    \/ OracleFails
    \/ LoopExit
    \/ \E k \in 1..MaxBatch : CallToolSend(k)
    \/ ServerHandle
    \/ \E k \in 1..MaxBatch : CallToolReturn(k)
    \/ \E k \in 1..MaxBatch : CallToolRejects(k)
    \/ BatchDone

Spec == Init /\ [][Next]_vars

\* the steps of processQuery and of the server while a query runs
QueryStep ==
    \/ OracleEndTurn
    \/ OracleToolUse
    \/ OracleOtherStop
    \/ OracleFails
    \/ LoopExit
    \/ \E k \in 1..MaxBatch : CallToolSend(k)
    \/ \E k \in 1..MaxBatch : CallToolReturn(k)
    \/ \E k \in 1..MaxBatch : CallToolRejects(k)
    \/ BatchDone
    \/ ServerHandle

\* every awaited call settles: the oracle answers or the call rejects, the tool
\* call resolves or rejects, and the loop goes on when it can
SpecFair == Spec /\ WF_vars(QueryStep)

---------------------------------------------------------------------------
(* client.ts: main from the discovery of the tools on, connected to a       *)
(* server that answers tools/list with any catalogue.                       *)

ToolA == [name |-> "a", description |-> <<"A">>, inputSchema |-> {Field("p", "string", TRUE)}]
\* a tool that was registered without a description
ToolB == [name |-> "b", inputSchema |-> {}]

Catalogues == {<<>>, <<ToolB, ToolA>>, ListedTools}

ClientStarting ==
    /\ pc = "discover"
    /\ messages = <<>>
    /\ iter = 0
    /\ response = None
    /\ toolResults = <<>>
    /\ inFlight = {}
    /\ outcome = None
    /\ oracleCalls = 0
    /\ blocksUsed = 0
    /\ invocations = <<>>
    /\ mcpTools = <<>>
    /\ anthropicTools = <<>>
    /\ systemPrompt = <<>>
    /\ oracleRequest = None

InitMain == cwd = <<sep, "x">> /\ ServerStarted /\ ClientStarting

Discover_Hardcoded ==
    /\ pc = "discover"
    /\ \E tools \in Catalogues :
          /\ mcpTools' = tools
          /\ anthropicTools' = MapTools(ListedTools)
          /\ systemPrompt' = BuildPrompt(anthropicTools')
    /\ pc' = "prompt"
    /\ UNCHANGED <<messages, iter, response, toolResults, inFlight, outcome,
                   oracleCalls, blocksUsed, invocations, oracleRequest, wire>>
    /\ UNCHANGED srvVars

\* listTools resolves; the tool list and the system prompt are built from it
Discover ==
    /\ pc = "discover"
    /\ \E tools \in Catalogues :
          /\ mcpTools' = tools
          /\ anthropicTools' = MapTools(tools)
          /\ systemPrompt' = BuildPrompt(anthropicTools')
    /\ pc' = "prompt"
    /\ UNCHANGED <<messages, iter, response, toolResults, inFlight, outcome,
                   oracleCalls, blocksUsed, invocations, oracleRequest, wire>>
    /\ UNCHANGED srvVars

NextMain == Discover \/ Next

SpecMain == InitMain /\ [][NextMain]_vars

---------------------------------------------------------------------------
(* Properties of the server. *)

FsTools == {"read_file", "write_file", "list_directory"}

\* the user path of a file-system request
UserPathOf(h) == IF "path" \in DOMAIN h.args THEN h.args.path.v ELSE <<".">>

\* p is absolute and has no empty, "." or ".." segment
FullyResolved(p) ==
    /\ p # <<>>
    /\ p[1] = sep
    /\ \/ p = <<sep>>
       \/ LET segs == SplitPath(Tail(p))
          IN  \A j \in 1..Len(segs) : segs[j] \notin {<<>>, <<".">>, <<".", ".">>}

\* p is the directory root or lies below it, segment by segment
InsideDir(root, p) ==
    LET rs == SplitPath(root)
        ps == SplitPath(p)
    IN  /\ Len(rs) <= Len(ps)
        /\ SubSeq(ps, 1, Len(rs)) = rs

IsPathRejection(h) ==
    /\ h.env.isError = "true"
    /\ h.env.content = <<TextSeg(<<"Path escapes workspace: ", UserPathOf(h)>>)>>

FsRequestHandled == handled # None /\ handled.name \in FsTools /\ handled.ran

\* C4: the path guard returns a fully resolved path that is the workspace
\* directory or lies below it, separator by separator, or it rejects: every path
\* a file tool reads, writes or lists is such a path, and a request that touches
\* no path at all was rejected by the guard.
C4_GuardConfines ==
    FsRequestHandled =>
        /\ \A j \in 1..Len(opsLog) :
              opsLog[j].op \in {"readFile", "writeFile", "readdir"} =>
                  /\ FullyResolved(opsLog[j].target)
                  /\ InsideDir(WORKSPACE_DIR, opsLog[j].target)
                  /\ \/ opsLog[j].target = WORKSPACE_DIR
                     \/ StartsWith(opsLog[j].target, WORKSPACE_DIR \o <<sep>>)
        /\ opsLog = <<>> => IsPathRejection(handled)

\* a sibling directory whose name starts with the workspace's name is rejected
C4_Witness ==
    /\ FsRequestHandled
    /\ handled.name = "read_file"
    /\ cwd = <<sep, "x">>
    /\ UserPathOf(handled) = <<".", ".", sep, "w", "x">>
    /\ IsPathRejection(handled)
    /\ opsLog = <<>>

\* C5: a file tool performs no file-system call when the guard rejects, the
\* rejection carries the user path as given, and every file-system call that is
\* performed targets the workspace directory or a path below it.
C5_FsCallsConfined ==
    FsRequestHandled =>
        /\ safePath(UserPathOf(handled)).threw =>
              opsLog = <<>> /\ IsPathRejection(handled)
        /\ \A j \in 1..Len(opsLog) :
              opsLog[j].kind = "fs" => InsideDir(WORKSPACE_DIR, opsLog[j].target)

\* the statement text has a separator before the end of the trimmed text
HasSeparatorBeforeEnd(sql) ==
    LET t == trimEnd(trimStart(sql))
    IN  \E j \in 1..(Len(t) - 1) : t[j] = ";"

SqlRequestHandled == handled # None /\ handled.name = "query_database" /\ handled.ran

\* C6: a text with a statement separator before its end is executed as a whole
\* script that reports only success; a single statement is not.
C6_ScriptBranch ==
    SqlRequestHandled =>
        LET sql == handled.args.sql.v
        IN  IF HasSeparatorBeforeEnd(sql)
            THEN /\ opsLog = <<DbOp("exec", sql)>>
                 /\ "db" \notin handled.fails => handled.env = OkEnvelope(<<"{executed}">>)
            ELSE \A j \in 1..Len(opsLog) : opsLog[j].op # "exec"

ReadKeywords == {KwSELECT, KwPRAGMA, KwEXPLAIN}

\* c is the upper-case letter K or its lower-case form
SameLetter(c, K) ==
    \/ c = K
    \/ \E j \in 1..Len(UpperChars) : UpperChars[j] = K /\ LowerChars[j] = c

\* after n leading white-space characters the text spells a read keyword, in any
\* letter case
StartsWithReadKeyword(sql) ==
    \E n \in 0..Len(sql) :
        /\ \A j \in 1..n : sql[j] \in WhiteSpace
        /\ \E kw \in ReadKeywords :
              /\ n + Len(kw) <= Len(sql)
              /\ \A j \in 1..Len(kw) : SameLetter(sql[n + j], kw[j])

\* C7: a single statement is run in exactly one mode: row-returning, answering
\* the rows, iff it starts with a read keyword after leading white space and in
\* any letter case; otherwise affected-row mode, answering the change count and
\* the inserted identifier.
C7_ReadOrMutate ==
    (SqlRequestHandled /\ ~HasSeparatorBeforeEnd(handled.args.sql.v)) =>
        LET sql == handled.args.sql.v
        IN  /\ Len(opsLog) = 1
            /\ opsLog[1].target = sql
            /\ IF StartsWithReadKeyword(sql)
               THEN /\ opsLog[1].op = "prepare.all"
                    /\ "db" \notin handled.fails => handled.env = OkEnvelope(<<"[rows]">>)
               ELSE /\ opsLog[1].op = "prepare.run"
                    /\ "db" \notin handled.fails =>
                          handled.env = OkEnvelope(<<"{changes,lastInsertRowid}">>)

\* mixed case and leading white space: read mode
C7_Witness ==
    /\ SqlRequestHandled
    /\ handled.args.sql.v = <<"\n", " ", "S", "e", "l", "E", "c", "t", " ", "1">>
    /\ opsLog = <<DbOp("prepare.all", handled.args.sql.v)>>
    /\ handled.env = OkEnvelope(<<"[rows]">>)

\* the inputs on which a handler throws or rejects: the path guard rejects, or
\* an external call that the handler does not guard fails
HandlerFailsOn(h) ==
    \/ h.name \in FsTools /\ ~InsideDir(WORKSPACE_DIR, pathResolve(WORKSPACE_DIR, UserPathOf(h)))
    \/ h.name = "read_file" /\ "readFile" \in h.fails
    \/ h.name = "write_file" /\ h.fails \cap {"mkdir", "writeFile"} # {}
    \/ h.name = "list_directory" /\ "readdir" \in h.fails
    \/ h.name \in {"fetch_url", "get_weather"} /\ "fetch" \in h.fails
    \/ h.name = "run_code" /\ "mkdir" \in h.fails

\* C8: the invoker never propagates an exception: when the handler throws or
\* rejects, the request is answered by an envelope with isError = true and a
\* content that is not empty, and the server stays ready for the next request.
C8_InvokerNeverRaises ==
    (handled # None /\ handled.ran /\ (handled.threw \/ HandlerFailsOn(handled))) =>
        /\ ~handled.propagated
        /\ handled.env.isError = "true"
        /\ handled.env.content # <<>>
        /\ \A j \in 1..Len(handled.env.content) : handled.env.content[j].text # <<>>
        /\ Response(0, handled.env) \in wire \/ \E m \in wire : m.kind = "response"
        /\ srv = "ready"

\* a failed outbound call of get_weather is answered with an error envelope
C8_Witness ==
    /\ handled # None
    /\ handled.name = "get_weather"
    /\ "fetch" \in handled.fails
    /\ handled.threw
    /\ handled.env = ErrEnvelope(<<"fetch failed">>)
    /\ Response(0, handled.env) \in wire

---------------------------------------------------------------------------
(* Properties of the agent loop. *)

IterationLimitText == <<"(reached max iterations)">>

\* C1: one processQuery makes at most MAX_ITERATIONS oracle calls, one per round
\* trip; a query whose every oracle call was answered with tool_use returns the
\* iteration-limit text, and not an error, after exactly MAX_ITERATIONS calls.
C1_IterationCeiling ==
    /\ oracleCalls <= MAX_ITERATIONS
    /\ iter <= MAX_ITERATIONS
    /\ pc = "loop" => oracleCalls = iter
    /\ pc = "dispatch" => oracleCalls = iter + 1
    /\ (pc = "prompt" /\ outcome # None /\ oracleCalls = iter) =>
          /\ outcome = Returns(IterationLimitText)
          /\ oracleCalls = MAX_ITERATIONS
    /\ (pc = "prompt" /\ outcome = Returns(IterationLimitText)) => oracleCalls = MAX_ITERATIONS

C1_Witness ==
    /\ pc = "prompt"
    /\ outcome = Returns(IterationLimitText)
    /\ oracleCalls = 10
    /\ iter = 10

\* result i answers request i, for every i, and there are as many of each
ResultsMatch(results, requests) ==
    /\ Len(results) = Len(requests)
    /\ \A i \in 1..Len(results) :
          /\ results[i].type = "tool_result"
          /\ results[i].tool_use_id = requests[i].id

\* C2: every tool-results message follows an assistant message and has one
\* entry per tool_use block of that message, entry i with the id of block i; an
\* oracle call is made only on a conversation that ends with the user text or
\* with a tool-results message.
C2_ResultsMatchRequests ==
    /\ \A j \in 1..Len(messages) :
          /\ messages[j].kind = "tool_results" =>
                /\ j > 1
                /\ messages[j - 1].kind = "blocks"
                /\ ResultsMatch(messages[j].content, ToolUseBlocks(messages[j - 1].content))
          /\ (messages[j].kind = "blocks" /\ j < Len(messages)) =>
                messages[j + 1].kind = "tool_results"
    /\ (pc = "loop" /\ Len(messages) > 1) => messages[Len(messages)].kind = "tool_results"

\* a batch of two requests, the first answered with an error, is in the
\* conversation with its two results
C2_Witness ==
    /\ pc = "loop"
    /\ Len(messages) = 3
    /\ Len(ToolUseBlocks(messages[2].content)) = 2
    /\ Len(messages[3].content) = 2
    /\ messages[3].content[1].is_error
    /\ ~messages[3].content[2].is_error

\* the calls of this turn that were issued
IssuedThisTurn == Len(toolResults) + Cardinality(inFlight)

\* C3: the invocations of one turn are issued one at a time in the order of the
\* tool_use blocks: at most one call is pending, block k + 1 is not sent before
\* block k has its result, and nothing of an earlier call is still on the wire.
C3_SequentialDispatch ==
    /\ Cardinality(inFlight) <= 1
    /\ Cardinality(wire) <= 1
    /\ \A m \in wire : m.id \in inFlight
    /\ pc # "dispatch" => inFlight = {} /\ wire = {}
    /\ pc = "dispatch" =>
          /\ \A k \in inFlight : Len(toolResults) = k - 1
          /\ IssuedThisTurn <= Len(invocations)
          /\ SubSeq(invocations, Len(invocations) - IssuedThisTurn + 1, Len(invocations))
                = SubSeq(ToolUseBlocks(response.content), 1, IssuedThisTurn)
          /\ \A j \in 1..Len(toolResults) :
                toolResults[j].tool_use_id = ToolUseBlocks(response.content)[j].id

\* the second call of a batch is pending and the first has its result
C3_Witness ==
    /\ pc = "dispatch"
    /\ inFlight = {2}
    /\ Len(toolResults) = 1
    /\ \E m \in wire : m.kind = "request" /\ m.id = 2

\* the text says which tool is not there
NamesTool(text, name) == \E j \in 1..Len(text) : text[j] = name

UnknownTool(b) == b.name \notin RegisteredTools

\* the response on the wire answers a request for a tool that is not registered
UnknownToolAnswered ==
    /\ pc = "dispatch"
    /\ \E m \in wire :
          m.kind = "response" /\ UnknownTool(ToolUseBlocks(response.content)[m.id])

C9_EnvelopeNamesTool ==
    /\ \A m \in wire :
          (m.kind = "request" /\ m.name \notin RegisteredTools /\ srv = "ready") =>
              ENABLED ServerHandle
    /\ (handled # None /\ handled.name \notin RegisteredTools) =>
          /\ ~handled.ran
          /\ ~handled.propagated
          /\ handled.env.isError = "true"
          /\ Len(handled.env.content) = 1
          /\ NamesTool(handled.env.content[1].text, handled.name)
    /\ pc = "dispatch" =>
          \A j \in 1..Len(toolResults) :
              UnknownTool(ToolUseBlocks(response.content)[j]) =>
                  /\ toolResults[j].is_error
                  /\ NamesTool(toolResults[j].content, ToolUseBlocks(response.content)[j].name)
    /\ (pc = "dispatch" /\ inFlight = {}) =>
          \/ \E k \in Dispatchable : ENABLED CallToolSend(k)
          \/ ENABLED BatchDone

C9_LoopGoesOn ==
    UnknownToolAnswered /\ wire' # wire =>
        \/ outcome' = Throws("transport")
        \/ /\ pc' = "dispatch"
           /\ Len(toolResults') = Len(toolResults) + 1
           /\ SubSeq(toolResults', 1, Len(toolResults)) = toolResults
           /\ toolResults'[Len(toolResults')].is_error
           /\ messages' = messages
           /\ iter' = iter

\* C9: a request for a tool that is not registered is answered by an envelope
\* with isError = true whose text names the tool, the handler side throws
\* nothing, and the loop goes on: the result is pushed as an error entry and the
\* next request of the batch is sent or the results are handed to the oracle.
C9_UnknownToolContinues == []C9_EnvelopeNamesTool /\ [][C9_LoopGoesOn]_vars

\* an unknown tool first in a batch of two: its error entry is pushed and the
\* second request is on the wire
C9_Witness ==
    /\ pc = "dispatch"
    /\ Len(toolResults) = 1
    /\ UnknownTool(ToolUseBlocks(response.content)[1])
    /\ toolResults[1].is_error
    /\ NamesTool(toolResults[1].content, "delete_everything")
    /\ inFlight = {2}

HasErrorResult == \E j \in 1..Len(toolResults) : toolResults[j].is_error

ErrorEnvelopeAnswered ==
    /\ pc = "dispatch"
    /\ \E m \in wire : m.kind = "response" /\ m.env.isError = "true"

C10_NoAbort ==
    /\ (ErrorEnvelopeAnswered /\ wire' # wire) =>
          \/ outcome' = Throws("transport")
          \/ /\ pc' = "dispatch"
             /\ Len(toolResults') = Len(toolResults) + 1
             /\ toolResults'[Len(toolResults')].is_error
    /\ (pc = "dispatch" /\ HasErrorResult) =>
          \/ outcome' = Throws("transport")
          \/ /\ pc' = "dispatch"
             /\ Len(toolResults') >= Len(toolResults)
             /\ SubSeq(toolResults', 1, Len(toolResults)) = toolResults
             /\ messages' = messages
          \/ /\ pc' = "loop"
             /\ Len(toolResults) = Len(ToolUseBlocks(response.content))
             /\ messages' = Append(messages, ToolResultsMessage(toolResults))
             /\ iter' = iter + 1

C10_CanGoOn ==
    /\ (pc = "dispatch" /\ HasErrorResult /\ inFlight = {}) =>
          \/ /\ Len(toolResults) < Len(ToolUseBlocks(response.content))
             /\ ENABLED CallToolSend(Len(toolResults) + 1)
          \/ /\ Len(toolResults) = Len(ToolUseBlocks(response.content))
             /\ ENABLED BatchDone
    /\ (pc = "loop" /\ iter < MAX_ITERATIONS) => ENABLED OracleEndTurn /\ ENABLED OracleToolUse
    /\ (pc = "loop" /\ iter >= MAX_ITERATIONS) => ~ENABLED OracleToolUse /\ ENABLED LoopExit

\* C10: an envelope with isError = true does not abort the query: its entry is
\* pushed, the remaining requests of the batch are still sent, the tool-results
\* message with every entry is appended and the oracle is called again unless
\* the iteration ceiling is reached; only a failed transport call ends the batch
\* early.
C10_ErrorsDoNotAbort == []C10_CanGoOn /\ [][C10_NoAbort]_vars

\* an error entry first in a batch of two, and the second request sent
C10_Witness ==
    /\ pc = "dispatch"
    /\ Len(ToolUseBlocks(response.content)) = 2
    /\ Len(toolResults) = 1
    /\ toolResults[1].is_error
    /\ ToolUseBlocks(response.content)[1].name = "read_file"
    /\ \E m \in wire : m.kind = "request" /\ m.id = 2

---------------------------------------------------------------------------
(* Properties of the agent loop: failures. *)

SuccessText == <<"{changes,lastInsertRowid}">>

\* the entry that is pushed when the response m on the wire is taken
C11_MarkerStep ==
    \A m \in wire :
        (pc = "dispatch" /\ m.kind = "response" /\ wire' # wire /\ pc' = "dispatch") =>
            /\ Len(toolResults') = Len(toolResults) + 1
            /\ SubSeq(toolResults', 1, Len(toolResults)) = toolResults
            /\ toolResults'[Len(toolResults')].tool_use_id =
                  ToolUseBlocks(response.content)[m.id].id
            /\ toolResults'[Len(toolResults')].is_error = (m.env.isError = "true")
            /\ handled # None => m.env = handled.env

\* the entries as they are handed to the oracle
C11_HandedOver ==
    (pc = "dispatch" /\ pc' = "loop") =>
        messages'[Len(messages')] = ToolResultsMessage(toolResults)

\* of the tools the oracle asks for here, only a statement that the store ran
\* is answered without isError
C11_Recorded ==
    /\ pc = "dispatch" =>
          \A j \in 1..Len(toolResults) :
              toolResults[j].is_error = (toolResults[j].content # SuccessText)
    /\ \A i \in 1..Len(messages) :
          messages[i].kind = "tool_results" =>
              \A j \in 1..Len(messages[i].content) :
                  /\ messages[i].content[j].is_error = (messages[i].content[j].content # SuccessText)
                  /\ messages[i].content[j].is_error =
                        (ToolUseBlocks(messages[i - 1].content)[j].name # "query_database"
                         \/ messages[i].content[j].content # SuccessText)

\* C11: the tool_result entry pushed for a request has is_error true exactly
\* when the envelope returned for that request has isError = true, it carries
\* the id of that request, the earlier entries are left as they are, and the
\* entries reach the oracle as they were pushed.
C11_FailureMarker ==
    []C11_Recorded /\ [][C11_MarkerStep /\ C11_HandedOver]_vars

\* a batch of two: the first request succeeded, the second was answered with an
\* error envelope
C11_Witness ==
    /\ pc = "dispatch"
    /\ Len(toolResults) = 2
    /\ ~toolResults[1].is_error
    /\ toolResults[1].content = SuccessText
    /\ toolResults[2].is_error

\* the pending call has failed in the transport
TransportFailed == pc = "dispatch" /\ \E m \in wire : m.kind = "failed"

C12_AbortStep ==
    /\ TransportFailed =>
          /\ pc' = "prompt"
          /\ outcome' = Throws("transport")
          /\ wire' = {}
          /\ inFlight' = {}
          /\ oracleCalls' = oracleCalls
          /\ ~ENABLED ServerHandle
    /\ (pc = "dispatch" /\ pc' = "prompt") =>
          /\ outcome'.kind = "threw"
          /\ wire' = {}
          /\ inFlight' = {}
          /\ oracleCalls' = oracleCalls
    /\ (pc = "prompt" /\ outcome = Throws("transport")) =>
          \/ pc' = "exited"
          \/ pc' = "loop" /\ oracleCalls' = 0 /\ outcome' = None

C12_Surfaced ==
    /\ TransportFailed =>
          /\ \A k \in 1..MaxBatch : ~ENABLED CallToolSend(k) /\ ~ENABLED CallToolReturn(k)
          /\ ~ENABLED BatchDone
          /\ \E k \in inFlight : ENABLED CallToolRejects(k)
    /\ (pc = "prompt" /\ outcome # None /\ outcome.kind = "threw") =>
          /\ wire = {}
          /\ inFlight = {}
          /\ ~ENABLED OracleEndTurn /\ ~ENABLED OracleToolUse /\ ~ENABLED OracleOtherStop
          /\ \A k \in 1..MaxBatch : ~ENABLED CallToolSend(k)

\* C12: a callTool that rejects ends the query: processQuery throws, the REPL
\* reports the error, nothing is returned as the answer, and no request or
\* oracle call is made for the query after it; the call is not sent again.
C12_TransportFailureAborts == []C12_Surfaced /\ [][C12_AbortStep]_vars

\* the connection was lost during a request of the first turn
C12_Witness ==
    /\ pc = "prompt"
    /\ outcome = Throws("transport")
    /\ srv = "down"
    /\ oracleCalls = 1
    /\ iter = 0

\* the tool_use blocks of the assistant messages among the first n, in order
RECURSIVE RequestedUpTo(_, _)
RequestedUpTo(msgs, n) ==
    IF n = 0 THEN <<>>
    ELSE IF msgs[n].kind = "blocks"
         THEN RequestedUpTo(msgs, n - 1) \o ToolUseBlocks(msgs[n].content)
         ELSE RequestedUpTo(msgs, n - 1)

RequestedIn(msgs) == RequestedUpTo(msgs, Len(msgs))

AssistantTurns == Cardinality({j \in 1..Len(messages) : messages[j].kind = "blocks"})

\* C13: nothing is retried: the requests sent are the tool_use blocks the
\* oracle emitted, each sent once and in order (all of them once the batch is
\* done), no request is handled twice by the server, and each pass of the loop
\* makes one oracle call.
C13_NoRetries ==
    /\ \A i, j \in 1..Len(invocations) : invocations[i].id = invocations[j].id => i = j
    /\ pc = "loop" =>
          /\ invocations = RequestedIn(messages)
          /\ oracleCalls = AssistantTurns
    /\ pc = "dispatch" =>
          /\ LET earlier == RequestedUpTo(messages, Len(messages) - 1)
                 now == ToolUseBlocks(messages[Len(messages)].content)
             IN  /\ IssuedThisTurn <= Len(now)
                 /\ invocations = earlier \o SubSeq(now, 1, IssuedThisTurn)
          /\ oracleCalls = AssistantTurns
          /\ handled # None =>
                /\ \A m \in wire : m.kind # "request"
                /\ \E k \in inFlight :
                      /\ handled.name = ToolUseBlocks(response.content)[k].name
                      /\ handled.args = ToolUseBlocks(response.content)[k].input

\* the oracle asked for the same tool again in a second turn, after an error:
\* two requests were sent
C13_Witness ==
    /\ pc = "loop"
    /\ Len(messages) = 5
    /\ Len(invocations) = 2
    /\ invocations[1].name = "query_database"
    /\ invocations[2].name = "query_database"
    /\ Len(messages[3].content) = 1
    /\ messages[3].content[1].is_error

---------------------------------------------------------------------------
(* Properties of the agent loop: the final answer. *)

NoTextPlaceholder == <<"(no text response)">>
UnexpectedStopPlaceholder == <<"(unexpected stop)">>

\* processQuery has returned on a response with this stop reason
AnsweredWith(stop) == pc = "prompt" /\ response # None /\ response.stop_reason = stop

\* the text segments of a response, in order
TextSegments(content) ==
    LET at == SelectSeq([j \in 1..Len(content) |-> j], LAMBDA j : content[j].type = "text")
    IN  [n \in 1..Len(at) |-> content[at[n]].text]

\* the first n texts one after the other, with nothing between them
RECURSIVE Concatenated(_, _)
Concatenated(texts, n) ==
    IF n = 0 THEN <<>> ELSE Concatenated(texts, n - 1) \o texts[n]

\* the first n texts with a line feed between each two
RECURSIVE LineJoined(_, _)
LineJoined(texts, n) ==
    IF n = 0 THEN <<>>
    ELSE IF n = 1 THEN texts[1]
         ELSE LineJoined(texts, n - 1) \o <<"\n">> \o texts[n]

\* the query is over: nothing is pending and nothing more is called for it
QueryOver ==
    /\ wire = {}
    /\ inFlight = {}
    /\ oracleCalls = iter + 1
    /\ ~ENABLED OracleEndTurn /\ ~ENABLED OracleToolUse /\ ~ENABLED OracleOtherStop
    /\ \A k \in 1..MaxBatch : ~ENABLED CallToolSend(k)

\* C14 as stated: on end_turn processQuery returns the concatenation of the
\* text segments of the response, in order, or the placeholder when that is
\* empty, and calls nothing more.
C14_EndReturnsConcatenation ==
    AnsweredWith("end_turn") =>
        LET texts == TextSegments(response.content)
            all == Concatenated(texts, Len(texts))
        IN  /\ outcome = Returns(IF all = <<>> THEN NoTextPlaceholder ELSE all)
            /\ QueryOver

\* C14 as amended: on end_turn processQuery returns the text segments of the
\* response, in order, joined with a line feed between each two, or the
\* placeholder when the joined text is empty, and calls nothing more.
C14_EndReturnsJoinedText ==
    AnsweredWith("end_turn") =>
        LET texts == TextSegments(response.content)
            all == LineJoined(texts, Len(texts))
        IN  /\ outcome = Returns(IF all = <<>> THEN NoTextPlaceholder ELSE all)
            /\ QueryOver

\* two text segments are returned in their order with a line feed between them
C14_Witness ==
    /\ AnsweredWith("end_turn")
    /\ Len(response.content) = 2
    /\ TextSegments(response.content) = << <<"U">>, <<"T">> >>
    /\ outcome = Returns(<<"U", "\n", "T">>)

\* what processQuery returns for this content when the stop reason is end_turn
EndValue(content) ==
    LET texts == TextSegments(content)
        all == LineJoined(texts, Len(texts))
    IN  Returns(IF all = <<>> THEN NoTextPlaceholder ELSE all)

\* C15 as stated: on another stop reason processQuery returns the value it
\* would return for end_turn on the same content, and ends in the same way.
C15_OtherSameAsEnd ==
    AnsweredWith("other") =>
        /\ outcome = EndValue(response.content)
        /\ QueryOver

\* C15 as amended: on another stop reason processQuery ends in the same way as
\* for end_turn and returns the same value when the response has text; when it
\* has none it returns the placeholder of its own, "(unexpected stop)".
C15_OtherReturnsText ==
    AnsweredWith("other") =>
        LET texts == TextSegments(response.content)
            all == LineJoined(texts, Len(texts))
        IN  /\ all # <<>> => outcome = EndValue(response.content)
            /\ all = <<>> => outcome = Returns(UnexpectedStopPlaceholder)
            /\ QueryOver

\* a response without text and with another stop reason
C15_Witness ==
    /\ AnsweredWith("other")
    /\ TextSegments(response.content) = <<>>
    /\ Len(response.content) = 1
    /\ outcome = Returns(UnexpectedStopPlaceholder)

\* the conversation starts with the user text and then holds, for each of the
\* first turns tool_use turns, the assistant message and the results of its
\* requests
HoldsTurns(msgs, turns) ==
    /\ Len(msgs) >= 1 + 2 * turns
    /\ msgs[1].kind = "text"
    /\ \A j \in 1..turns :
          /\ msgs[2 * j].kind = "blocks"
          /\ msgs[2 * j + 1].kind = "tool_results"
          /\ ResultsMatch(msgs[2 * j + 1].content, ToolUseBlocks(msgs[2 * j].content))

\* C16: after k tool_use turns and then end_turn with the text T, a text that
\* is not empty, processQuery returns exactly T after exactly k + 1 oracle
\* calls, k < MAX_ITERATIONS; oracle call j + 1 is made on the user text
\* followed by the assistant message and the tool results of each of the j
\* earlier turns.
C16_ToolTurnsThenText ==
    /\ pc = "loop" =>
          /\ oracleCalls = iter
          /\ Len(messages) = 1 + 2 * iter
          /\ HoldsTurns(messages, iter)
    /\ pc = "dispatch" =>
          /\ oracleCalls = iter + 1
          /\ Len(messages) = 2 + 2 * iter
          /\ HoldsTurns(messages, iter)
          /\ messages[Len(messages)] = AssistantMessage(response.content)
    /\ AnsweredWith("end_turn") =>
          /\ iter < MAX_ITERATIONS
          /\ oracleCalls = iter + 1
          /\ \A j \in 1..Len(response.content) :
                (/\ response.content[j].type = "text"
                 /\ TextSegments(response.content) = <<response.content[j].text>>
                 /\ response.content[j].text # <<>>) =>
                    outcome = Returns(response.content[j].text)

\* two tool_use turns and then the text T: T is returned after three calls
C16_Witness ==
    /\ AnsweredWith("end_turn")
    /\ iter = 2
    /\ oracleCalls = 3
    /\ response.content = <<[type |-> "text", text |-> <<"T">>]>>
    /\ outcome = Returns(<<"T">>)

---------------------------------------------------------------------------
(* Properties of the agent loop: the conversation and the REPL. *)

IsPrefix(a, b) == Len(a) <= Len(b) /\ SubSeq(b, 1, Len(a)) = a

InQuery == pc \in {"loop", "dispatch"}

C18_AppendStep ==
    /\ (InQuery /\ InQuery') =>
          /\ IsPrefix(messages, messages')
          /\ Len(messages') <= Len(messages) + 1
    /\ (pc = "prompt" /\ pc' = "loop") =>
          /\ Len(messages') = 1
          /\ messages'[1].kind = "text"
          /\ messages'[1].role = "user"

C18_UserTextFirst ==
    InQuery =>
        /\ messages # <<>>
        /\ messages[1].kind = "text"
        /\ \A j \in 2..Len(messages) : messages[j].kind # "text"

\* C18: during a query the conversation starts as the one user-text message
\* and each step leaves it as it is or appends one message to it: what an
\* earlier oracle call was given is a prefix of what a later one is given.
C18_AppendOnly == []C18_UserTextFirst /\ [][C18_AppendStep]_vars

\* the third oracle call is about to be made on a conversation of five messages
\* that holds a request and its result
C18_Witness ==
    /\ pc = "loop"
    /\ iter = 2
    /\ Len(messages) = 5
    /\ messages[1] = UserMessage(<<"h", "i">>)
    /\ Len(messages[4].content) = 1
    /\ Len(messages[5].content) = 1

\* the text the REPL passes to processQuery
QueryTexts == {trimEnd(trimStart(input)) : input \in ReplInputs} \ {<<>>}

C19_FreshStart ==
    (pc = "prompt" /\ pc' = "loop") =>
        /\ \E text \in QueryTexts : messages' = <<UserMessage(text)>>
        /\ iter' = 0
        /\ oracleCalls' = 0
        /\ toolResults' = <<>>
        /\ invocations' = <<>>

C19_FirstCallOnUserText ==
    (pc = "loop" /\ oracleCalls = 0) =>
        \E text \in QueryTexts : messages = <<UserMessage(text)>>

\* C19: nothing of a query's conversation is carried into the next: however the
\* earlier queries ended, the first oracle call of a query is made on the one
\* message that holds the user text of that query.
C19_NoStateAcrossQueries == []C19_FirstCallOnUserText /\ [][C19_FreshStart]_vars

\* a second query, after one that lost the connection, is about to make its
\* first oracle call
C19_Witness ==
    /\ pc = "loop"
    /\ oracleCalls = 0
    /\ srv = "down"
    /\ messages = <<UserMessage(<<"h", "i">>)>>

C20_StartStep ==
    (pc' = "loop" /\ oracleCalls' = 0) =>
        \/ pc = "loop" /\ oracleCalls = 0
        \/ /\ pc = "prompt"
           /\ wire = {}
           /\ inFlight = {}
           /\ toolResults = <<>>

C20_NoInputInQuery ==
    /\ InQuery => \A input \in ReplInputs : ~ENABLED ReplQuestion(input)
    /\ ~InQuery =>
          /\ wire = {}
          /\ inFlight = {}
          /\ toolResults = <<>>
          /\ ~ENABLED OracleEndTurn /\ ~ENABLED OracleToolUse /\ ~ENABLED OracleOtherStop
          /\ ~ENABLED BatchDone
          /\ \A k \in 1..MaxBatch : ~ENABLED CallToolSend(k) /\ ~ENABLED CallToolReturn(k)

\* C20: the REPL takes no input while processQuery runs: a query starts only
\* at the prompt, with nothing of an earlier query pending, and outside a
\* query no oracle call and no tool call is made.
C20_OneConversation == []C20_NoInputInQuery /\ [][C20_StartStep]_vars

\* a request of a query is pending and the REPL takes no input
C20_Witness ==
    /\ pc = "dispatch"
    /\ iter = 1
    /\ \E m \in wire : m.kind = "request" /\ m.id = 2
    /\ \A input \in ReplInputs : ~ENABLED ReplQuestion(input)

---------------------------------------------------------------------------
(* Properties of the server: run_code, web_search, the schemas, the store. *)

RunCodeHandled == handled # None /\ handled.name = "run_code" /\ handled.ran

OpsOf(op) == {j \in 1..Len(opsLog) : opsLog[j].kind \in {"fs", "exec"} /\ opsLog[j].op = op}

\* the files that the handled run_code wrote and that are there after it: a
\* file that fs.writeFile wrote is there until an fs.unlink of it succeeds
TmpFilesLeft ==
    {opsLog[j].target : j \in {w \in OpsOf("writeFile") :
        /\ "writeFile" \notin handled.fails
        /\ ~(/\ "unlink" \notin handled.fails
             /\ \E u \in OpsOf("unlink") : u > w /\ opsLog[u].target = opsLog[w].target)}}

\* on every path that gets to fs.writeFile the handler calls fs.unlink on the
\* same file after everything else, and a failure of the script or the timeout
\* gives an envelope with isError = true
C21_UnlinkOnEveryPath ==
    RunCodeHandled =>
        /\ \A w \in OpsOf("writeFile") :
              /\ opsLog[Len(opsLog)].op = "unlink"
              /\ opsLog[Len(opsLog)].target = opsLog[w].target
        /\ (handled.fails \cap {"mkdir", "writeFile", "exec", "timeout"} # {})
              => handled.env.isError = "true"

\* C21: after a run_code invocation has returned, no temporary file that it
\* created remains.
C21_NoTempFileRemains == RunCodeHandled => TmpFilesLeft = {}

MissingKeyText == <<"BRAVE_API_KEY is not set in environment variables.">>

\* web_search was invoked with the credential absent from the environment
CredentialAbsent ==
    /\ handled # None
    /\ handled.name = "web_search"
    /\ handled.ran
    /\ "apiKey" \in handled.fails

\* C22: without the search credential web_search returns an envelope with
\* isError = true that says so, makes no outbound call and does not throw; the
\* server stays up, the answer leaves and the next request is taken.
C22_MissingCredential ==
    CredentialAbsent =>
        /\ handled.env = ErrEnvelope(MissingKeyText)
        /\ handled.env.isError = "true"
        /\ ~handled.threw
        /\ ~handled.propagated
        /\ opsLog = <<>>
        /\ srv = "ready"
        /\ \E m \in wire : m.kind = "response" /\ m.env = handled.env
        /\ ENABLED ResponseLeaves

\* the credential is absent and nothing else fails; the error envelope is on
\* the wire
C22_Witness ==
    /\ CredentialAbsent
    /\ handled.fails = {"apiKey"}
    /\ "count" \in DOMAIN handled.args
    /\ opsLog = <<>>
    /\ \E m \in wire : m.kind = "response" /\ m.env.isError = "true"

\* requests whose arguments do not fit the schema the tool was registered
\* with, and the field that is missing or has the wrong primitive type
Malformed ==
    {[name |-> "write_file", args |-> [path |-> Str(<<"w">>)], field |-> "content"],
     [name |-> "read_file", args |-> [path |-> Num(1)], field |-> "path"],
     [name |-> "web_search", args |-> [query |-> Str("q"), count |-> Str("3")],
      field |-> "count"]}

\* the envelope is an error envelope whose text names the field
DescribesField(env, field) ==
    /\ env.isError = "true"
    /\ Len(env.content) = 1
    /\ Len(env.content[1].text) = 4
    /\ field \in env.content[1].text[4]

\* C23: arguments that violate the tool's schema are answered with an envelope
\* with isError = true that names every violated field; the handler is not run
\* and no external call is made.
C23_SchemaViolationRejected ==
    handled # None =>
        /\ \A r \in Malformed :
              (handled.name = r.name /\ handled.args = r.args) =>
                  /\ DescribesField(handled.env, r.field)
                  /\ ~handled.ran
                  /\ opsLog = <<>>
        /\ (handled.name \in RegisteredTools /\ Violations(handled.name, handled.args) # {}) =>
              /\ \A f \in Violations(handled.name, handled.args) :
                    DescribesField(handled.env, f)
              /\ ~handled.ran
              /\ ~handled.threw
              /\ opsLog = <<>>

\* write_file was called without its content: rejected, nothing written
C23_Witness ==
    /\ handled # None
    /\ handled.name = "write_file"
    /\ "content" \notin DOMAIN handled.args
    /\ ~handled.ran
    /\ opsLog = <<>>
    /\ DescribesField(handled.env, "content")

\* the message of the error that the store throws in the model
StoreErrorText == <<"store error">>

\* query_database ran and db.prepare(sql).all() or .run() threw
StoreFailed ==
    /\ handled # None
    /\ handled.name = "query_database"
    /\ handled.ran
    /\ "db" \in handled.fails

\* what the code does with a store error, in the read and in the mutate
\* branch: the handler catches it and returns an envelope with isError = true
\* whose text is "SQL Error: " followed by the message, never a success
C24_HandlerWrapsStoreError ==
    StoreFailed =>
        /\ \/ opsLog = <<DbOp("prepare.all", handled.args.sql.v)>>
           \/ opsLog = <<DbOp("prepare.run", handled.args.sql.v)>>
        /\ ~handled.threw
        /\ handled.env = ErrEnvelope(<<"SQL Error: ">> \o StoreErrorText)

\* C24: an error of the store reaches the invoker as it was thrown and comes
\* back as an envelope with isError = true whose text is the store's message.
C24_StoreErrorUnmodified ==
    StoreFailed =>
        /\ handled.threw
        /\ handled.env = ErrEnvelope(StoreErrorText)

---------------------------------------------------------------------------
(* Properties of main: the catalogue and the instruction text. *)

\* the names of the entries of an instruction text: an entry is a line that
\* starts with "- ", and the name follows
RECURSIVE NamesListed(_)
NamesListed(text) ==
    IF Len(text) < 2 THEN <<>>
    ELSE IF Head(text) = "- " THEN <<text[2]>> \o NamesListed(Tail(Tail(text)))
         ELSE NamesListed(Tail(text))

\* tool j of the request is tool j of the catalogue: its name, its schema and,
\* where it has one, its description
SameTool(sentTool, listed) ==
    /\ sentTool.name = listed.name
    /\ sentTool.input_schema = listed.inputSchema
    /\ sentTool.description =
          (IF "description" \in DOMAIN listed THEN listed.description ELSE <<>>)

C25_FromCatalogue ==
    oracleRequest # None =>
        /\ Len(oracleRequest.tools) = Len(mcpTools)
        /\ \A j \in 1..Len(mcpTools) : SameTool(oracleRequest.tools[j], mcpTools[j])
        /\ NamesListed(oracleRequest.system) = [j \in 1..Len(mcpTools) |-> mcpTools[j].name]

C25_SameStep ==
    /\ (oracleRequest # None /\ oracleRequest' # None) => oracleRequest' = oracleRequest
    /\ pc # "discover" => mcpTools' = mcpTools

\* C25: the tool list of every oracle call is the discovered catalogue, tool
\* by tool and in its order, the instruction text has one entry for each tool
\* of the catalogue, and both are the same on every oracle call.
C25_CatalogueFromDiscover == []C25_FromCatalogue /\ [][C25_SameStep]_vars

\* the second oracle call of a query, on a catalogue of two tools of which the
\* first has no description
C25_Witness ==
    /\ mcpTools = <<ToolB, ToolA>>
    /\ oracleCalls = 2
    /\ iter = 1
    /\ oracleRequest # None
    /\ Len(oracleRequest.tools) = 2
    /\ NamesListed(oracleRequest.system) = <<"b", "a">>

---------------------------------------------------------------------------
(* Properties of the agent loop: termination and the shape of a query. *)

\* processQuery has returned or thrown, and the REPL has the answer or the error
QueryDone ==
    /\ pc = "prompt"
    /\ outcome # None
    /\ \/ outcome.kind = "returned"
       \/ outcome.kind = "threw"

\* a query was run and the REPL is back at its prompt
BackAtPrompt == pc = "prompt" /\ oracleCalls > 0

\* C26: when every oracle call and every tool call settles, a query that has
\* started comes to its end (at any time processQuery is not running or will
\* later not be running), and it ends with processQuery having returned a
\* text or the iteration-limit text, or having thrown.
C26_Terminates == []<>(~InQuery) /\ [](BackAtPrompt => QueryDone)

\* a query that made a round trip and then ended with the oracle call failing
C26_Witness ==
    /\ QueryDone
    /\ outcome = Throws("oracle")
    /\ iter = 1
    /\ oracleCalls = 2

\* message j of a conversation is the user text (j = 1), an assistant turn (j
\* even) or a tool-results message (j odd, j > 1)
ShapedAt(msgs, j) ==
    IF j = 1 THEN msgs[j].role = "user" /\ msgs[j].kind = "text"
    ELSE IF j % 2 = 0 THEN msgs[j].role = "assistant" /\ msgs[j].kind = "blocks"
         ELSE msgs[j].role = "user" /\ msgs[j].kind = "tool_results"

Shaped(msgs) == Len(msgs) >= 1 /\ \A j \in 1..Len(msgs) : ShapedAt(msgs, j)

C27_Shape ==
    /\ pc = "loop" =>
          /\ Shaped(messages)
          /\ Len(messages) = 1 + 2 * iter
    /\ pc = "dispatch" =>
          /\ Shaped(messages)
          /\ Len(messages) = 2 + 2 * iter
          /\ messages[Len(messages)].content = response.content

C27_Step ==
    /\ (invocations' # invocations /\ pc' = "dispatch") =>
          /\ pc = "dispatch"
          /\ messages[Len(messages)] = AssistantMessage(response.content)
          /\ messages' = messages
    /\ (pc = "dispatch" /\ messages' # messages /\ pc' # "prompt") =>
          /\ inFlight = {}
          /\ wire = {}
          /\ Len(toolResults) = Len(ToolUseBlocks(response.content))
          /\ Len(invocations) >= Len(toolResults)
          /\ messages' = Append(messages, ToolResultsMessage(toolResults))
          /\ pc' = "loop"

\* C27: at every oracle call the conversation is the user text followed by
\* pairs of an assistant turn and a tool-results message; the assistant turn is
\* the content of the oracle's response as it came, appended before the first
\* tool call of its batch is issued, and the tool-results message is appended
\* once, after the last tool call of the batch has returned.
C27_ConversationShape == []C27_Shape /\ [][C27_Step]_vars

\* the second oracle call of a query whose first response held a text and a
\* tool_use block
C27_Witness ==
    /\ pc = "loop"
    /\ iter = 1
    /\ Len(messages) = 3
    /\ Len(messages[2].content) = 2
    /\ messages[2].content[1].type = "text"
    /\ messages[2].content[2].type = "tool_use"
    /\ Len(messages[3].content) = 1

\* the last n elements of a sequence
LastOf(s, n) == [j \in 1..n |-> s[Len(s) - n + j]]

\* the batch of the last oracle call that the ceiling allows is being dispatched
LastBatch == pc = "dispatch" /\ iter = MAX_ITERATIONS - 1

\* the loop is at its end: the counter has reached the ceiling
AtCeiling == pc = "loop" /\ iter = MAX_ITERATIONS

C28_Dispatched ==
    /\ LastBatch =>
          /\ oracleCalls = MAX_ITERATIONS
          /\ (inFlight = {} /\ Len(toolResults) < Len(ToolUseBlocks(response.content)))
                => ENABLED CallToolSend(Len(toolResults) + 1)
          /\ Len(toolResults) < Len(ToolUseBlocks(response.content)) => ~ENABLED BatchDone
    /\ AtCeiling =>
          /\ oracleCalls = MAX_ITERATIONS
          /\ Len(messages) = 1 + 2 * MAX_ITERATIONS
          /\ LET requests == ToolUseBlocks(messages[Len(messages) - 1].content)
                 results == messages[Len(messages)].content
             IN  /\ messages[Len(messages)].kind = "tool_results"
                 /\ ResultsMatch(results, requests)
                 /\ Len(invocations) >= Len(requests)
                 /\ LastOf(invocations, Len(requests)) = requests
          /\ ~ENABLED OracleEndTurn /\ ~ENABLED OracleToolUse
          /\ ~ENABLED OracleOtherStop /\ ~ENABLED OracleFails
          /\ ENABLED LoopExit

C28_ReturnStep ==
    AtCeiling =>
        /\ pc' = "prompt"
        /\ outcome' = Returns(IterationLimitText)
        /\ oracleCalls' = oracleCalls

\* C28: when the tenth oracle call asks for tools, every request of that batch
\* is still sent and its result is appended, in order; no further oracle call
\* is made, so the oracle never sees these results, and processQuery returns
\* the iteration-limit text.
C28_LastBatchDispatched == []C28_Dispatched /\ [][C28_ReturnStep]_vars

\* the tenth response asked for a tool and its result is in the conversation
C28_Witness ==
    /\ AtCeiling
    /\ Len(messages) = 1 + 2 * MAX_ITERATIONS
    /\ Len(messages[Len(messages)].content) >= 1
    /\ Len(invocations) >= 1
    /\ invocations[Len(invocations)].id[1] = MAX_ITERATIONS

\* the response that is being handled, or that ended the query, holds a
\* tool_use block
HoldsRequest(resp) ==
    resp # None /\ \E j \in 1..Len(resp.content) : resp.content[j].type = "tool_use"

\* the tool_use blocks of the assistant turn that was appended last
LastTurnRequests ==
    IF messages # <<>> /\ messages[Len(messages)].kind = "blocks"
    THEN ToolUseBlocks(messages[Len(messages)].content)
    ELSE <<>>

InTurn(b) == \E j \in 1..Len(LastTurnRequests) : LastTurnRequests[j] = b

C29_OnlyWhenDispatching ==
    /\ (wire # {} \/ inFlight # {}) =>
          /\ pc = "dispatch"
          /\ response # None
          /\ response.stop_reason = "tool_use"
    /\ \A j \in inFlight :
          /\ j \in 1..Len(LastTurnRequests)
          /\ invocations # <<>>
          /\ invocations[Len(invocations)] = LastTurnRequests[j]
    /\ \A m \in wire : m.kind = "request" =>
          \E j \in 1..Len(LastTurnRequests) :
              /\ LastTurnRequests[j].name = m.name
              /\ LastTurnRequests[j].input = m.args
              /\ j = m.id
    /\ (pc = "prompt" /\ HoldsRequest(response)) =>
          /\ response.stop_reason \in {"end_turn", "other"}
          /\ wire = {}
          /\ \A k \in 1..MaxBatch : ~ENABLED CallToolSend(k)
          /\ ~ENABLED ServerHandle

C29_InvokeStep ==
    /\ invocations' # invocations /\ pc' = "dispatch" =>
          /\ pc = "dispatch"
          /\ response.stop_reason = "tool_use"
          /\ Len(invocations') = Len(invocations) + 1
          /\ InTurn(invocations'[Len(invocations')])
    /\ (handled' # handled /\ handled' # None) =>
          /\ pc = "dispatch"
          /\ response.stop_reason = "tool_use"
          /\ \E j \in inFlight :
                /\ LastTurnRequests[j].name = handled'.name
                /\ LastTurnRequests[j].input = handled'.args
    /\ (pc = "loop" /\ pc' = "prompt") => wire' = {} /\ wire = {}

\* C29: a tool is called only while a batch is dispatched, which is only after
\* a response with stop_reason tool_use; what is called is a tool_use block of
\* the assistant turn appended last; the tool_use blocks of a response that
\* ends the query are not called.
C29_InvokeOnlyOnToolUse == []C29_OnlyWhenDispatching /\ [][C29_InvokeStep]_vars

\* a response with stop_reason end_turn held a tool_use block: the query is
\* over and nothing was called
C29_Witness ==
    /\ pc = "prompt"
    /\ HoldsRequest(response)
    /\ response.stop_reason = "end_turn"
    /\ oracleCalls = 1
    /\ wire = {}
    /\ handled = None

\* a response with stop_reason tool_use and no tool_use block is being handled
EmptyBatch ==
    /\ pc = "dispatch"
    /\ response.stop_reason = "tool_use"
    /\ ToolUseBlocks(response.content) = <<>>

\* the round trip just made was one without a tool call
AfterEmptyBatch ==
    /\ pc = "loop"
    /\ iter >= 1
    /\ messages[Len(messages)] = ToolResultsMessage(<<>>)

C30_NothingCalled ==
    /\ EmptyBatch =>
          /\ messages[Len(messages)] = AssistantMessage(response.content)
          /\ wire = {}
          /\ inFlight = {}
          /\ toolResults = <<>>
          /\ \A k \in 1..MaxBatch : ~ENABLED CallToolSend(k)
          /\ ~ENABLED ServerHandle
          /\ ENABLED BatchDone
    /\ AfterEmptyBatch =>
          /\ oracleCalls = iter
          /\ ToolUseBlocks(messages[Len(messages) - 1].content) = <<>>
          /\ iter < MAX_ITERATIONS =>
                ENABLED OracleEndTurn /\ ENABLED OracleToolUse /\ ENABLED OracleOtherStop
          /\ iter = MAX_ITERATIONS => ~ENABLED OracleToolUse /\ ENABLED LoopExit

C30_EmptyStep ==
    EmptyBatch =>
        /\ messages' = Append(messages, ToolResultsMessage(<<>>))
        /\ iter' = iter + 1
        /\ pc' = "loop"
        /\ invocations' = invocations
        /\ wire' = {}
        /\ handled' = handled
        /\ opsLog' = opsLog

\* C30: a response with stop_reason tool_use and no tool_use block calls no
\* tool; the assistant turn and an empty tool-results message are appended, the
\* loop counter goes up by one, and the oracle is called again unless the
\* counter has reached the ceiling.
C30_EmptyBatchCounts == []C30_NothingCalled /\ [][C30_EmptyStep]_vars

\* a round trip on a response that held a text and no tool_use block
C30_Witness ==
    /\ AfterEmptyBatch
    /\ iter = 1
    /\ Len(messages) = 3
    /\ messages[2].content = <<[type |-> "text", text |-> <<"T">>]>>
    /\ invocations = <<>>
    /\ ENABLED OracleToolUse

===========================================================================
